---- MODULE Spec2Model ----
(***************************************************************************)
(* Risk-scoring pipeline of the workplace-stress assessment service:       *)
(* BurnoutEngine (burnout_engine.py) and PhishingRiskEngine                *)
(* (phishing_risk.py), driven in the order of analyze() (app.py).          *)
(*                                                                         *)
(* Numbers.  The engines compute in Python floats.  Every score is held    *)
(* here as an integer count of 1/Scale (fixed point), which is exact for   *)
(* every input of the grid below: hours and sleep in half hours, the other *)
(* six fields integers.  round(x, 2) is modelled as rounding to the        *)
(* nearest hundredth, ties to even (see FloatExact).                       *)
(***************************************************************************)
EXTENDS Integers, Sequences, FiniteSets, TLC

VARIABLES metrics, stress_result, burnout_result, phishing_result, weights,
          risk_factors, pc,
          data, response,
          use_openai, client, explanation,
          dataset, query, top_n, similar,
          model, label_encoder, artifact, calls,
          call_log

\* the engines and the locals of analyze()
scoreVars == <<metrics, stress_result, burnout_result, phishing_result,
               weights, risk_factors, pc>>

\* request.json and the response of analyze()
requestVars == <<data, response>>

\* LLMExplainer and the text it returns
explainerVars == <<use_openai, client, explanation>>

\* DatasetLoader.dataset, and the arguments and result of find_similar_cases
similarityVars == <<dataset, query, top_n, similar>>

\* StressLevelPredictor, the file at model_path and the predict calls
predictorVars == <<model, label_encoder, artifact, calls>>

\* the scoring calls made on the engines so far, with what each returned
logVars == <<call_log>>

vars == <<scoreVars, requestVars, explainerVars, similarityVars,
          predictorVars, logVars>>

(***************************************************************************)
(* Fixed-point arithmetic                                                  *)
(***************************************************************************)
Scale == 100000

Fx(n) == n * Scale

Half(k) == k * (Scale \div 2)

min2(a, b) == IF a <= b THEN a ELSE b

max2(a, b) == IF a >= b THEN a ELSE b

Abs(x) == IF x < 0 THEN 0 - x ELSE x

\* x * (num/den) for a decimal literal num/den of the source
MulDec(x, num, den) == (x * num) \div den

\* round(x, 2): nearest multiple of 0.01, ties to the even hundredth
Round2(x) ==
    LET unit == Scale \div 100
        q == x \div unit
        r == x % unit
    IN  IF 2 * r > unit \/ (2 * r = unit /\ q % 2 = 1)
        THEN (q + 1) * unit
        ELSE q * unit

None == [none |-> TRUE]

StressLevels == {"Low", "Medium", "High", "Critical"}

(***************************************************************************)
(* Bounds of the input grid                                                *)
(***************************************************************************)
MaxHours == 70
MaxSleep == 12
MaxMeetings == 45
MaxEmails == 252
MaxScale == 21
OutOfRange == 2

HoursValues == {Half(k) : k \in (0 - 10 * OutOfRange)..(2 * MaxHours)}

SleepValues == {Half(k) : k \in 0..(2 * MaxSleep)}

MeetingsValues == (0 - OutOfRange)..MaxMeetings

EmailsValues == (0 - OutOfRange)..MaxEmails

ScaleValues == (0 - OutOfRange)..MaxScale

Record(h, s, m, e, p, c, ts, wlb) ==
    [work_hours_per_week |-> h, sleep_hours_per_day |-> s,
     meetings_per_week |-> m, emails_per_day |-> e,
     deadline_pressure |-> p, task_complexity |-> c,
     team_support |-> ts, work_life_balance |-> wlb]

\* the record of the engines' own test (burnout_engine.py, phishing_risk.py)
FixtureRecord == Record(Fx(55), Fx(6), 25, 120, 9, 8, 4, 3)

\* every field at the point where its factor starts to count
BoundaryRecord == Record(Fx(40), Half(15), 10, 50, 1, 1, 10, 10)

\* the defaults analyze() substitutes for absent fields
DefaultRecord == Record(Fx(40), Fx(7), 15, 75, 5, 5, 5, 5)

\* every field at the end of the grid that raises the scores
HighRecord == Record(Fx(MaxHours), 0, MaxMeetings, MaxEmails, MaxScale - 1,
                     MaxScale - 1, 0 - OutOfRange, 0 - OutOfRange)

\* every field at the end of the grid that lowers the scores
LowRecord == Record(Half(0 - 10 * OutOfRange), Fx(MaxSleep), 0 - OutOfRange,
                    0 - OutOfRange, 0 - OutOfRange, 0 - OutOfRange, MaxScale,
                    MaxScale)

BaseRecords == {FixtureRecord, BoundaryRecord, DefaultRecord, HighRecord,
                LowRecord}

\* each base record with one field moved over the whole range of that field
MetricsRecords ==
    UNION {
        {[b EXCEPT !.work_hours_per_week = v] : v \in HoursValues}
        \cup {[b EXCEPT !.sleep_hours_per_day = v] : v \in SleepValues}
        \cup {[b EXCEPT !.meetings_per_week = v] : v \in MeetingsValues}
        \cup {[b EXCEPT !.emails_per_day = v] : v \in EmailsValues}
        \cup {[b EXCEPT !.deadline_pressure = v] : v \in ScaleValues}
        \cup {[b EXCEPT !.task_complexity = v] : v \in ScaleValues}
        \cup {[b EXCEPT !.team_support = v] : v \in ScaleValues}
        \cup {[b EXCEPT !.work_life_balance = v] : v \in ScaleValues}
        : b \in BaseRecords }

(***************************************************************************)
(* BurnoutEngine                                                           *)
(***************************************************************************)
\* the first two weights exchanged
BurnoutWeights_exchanged ==
    [emotional_exhaustion |-> 25, depersonalization |-> 35,
     personal_accomplishment |-> 20, work_overload |-> 20]

\* BurnoutEngine.__init__: the weights, in hundredths
BurnoutWeights ==
    [emotional_exhaustion |-> 35, depersonalization |-> 25,
     personal_accomplishment |-> 20, work_overload |-> 20]

\* sleep deprivation counted from 7 hours instead of 7.5
calculate_emotional_exhaustion_sleep7(work_hours, sleep_hours, stress_level_score) ==
    LET work_factor == min2(Fx(100), max2(0, (work_hours - Fx(40)) * 5))
        sleep_factor0 == max2(0, (Fx(7) - sleep_hours) * 15)
        sleep_factor == min2(Fx(100), sleep_factor0)
        score == MulDec(work_factor, 4, 10) + MulDec(sleep_factor, 3, 10)
                 + MulDec(Fx(stress_level_score), 3, 10)
    IN  min2(Fx(100), max2(0, score))

calculate_emotional_exhaustion(work_hours, sleep_hours, stress_level_score) ==
    LET work_factor == min2(Fx(100), max2(0, (work_hours - Fx(40)) * 5))
        sleep_factor0 == max2(0, (Half(15) - sleep_hours) * 15)
        sleep_factor == min2(Fx(100), sleep_factor0)
        score == MulDec(work_factor, 4, 10) + MulDec(sleep_factor, 3, 10)
                 + MulDec(Fx(stress_level_score), 3, 10)
    IN  min2(Fx(100), max2(0, score))

\* the sum returned without the final min/max
calculate_depersonalization_unclamped(team_support, work_life_balance, meetings_per_week) ==
    LET support_factor == Fx((10 - team_support) * 10)
        balance_factor == Fx((10 - work_life_balance) * 10)
        meeting_factor0 == min2(Fx(100), Fx((meetings_per_week - 10) * 3))
        meeting_factor == max2(0, meeting_factor0)
    IN  MulDec(support_factor, 4, 10) + MulDec(balance_factor, 4, 10)
        + MulDec(meeting_factor, 2, 10)

calculate_depersonalization(team_support, work_life_balance, meetings_per_week) ==
    LET support_factor == Fx((10 - team_support) * 10)
        balance_factor == Fx((10 - work_life_balance) * 10)
        meeting_factor0 == min2(Fx(100), Fx((meetings_per_week - 10) * 3))
        meeting_factor == max2(0, meeting_factor0)
        score == MulDec(support_factor, 4, 10) + MulDec(balance_factor, 4, 10)
                 + MulDec(meeting_factor, 2, 10)
    IN  min2(Fx(100), max2(0, score))

calculate_personal_accomplishment(task_complexity, deadline_pressure) ==
    LET complexity_factor == Fx(task_complexity * 5)
        pressure_factor == Fx(deadline_pressure * 5)
        synergy == MulDec(Fx(task_complexity * deadline_pressure), 5, 10)
        score == MulDec(complexity_factor, 3, 10) + MulDec(pressure_factor, 4, 10)
                 + MulDec(synergy, 3, 10)
    IN  min2(Fx(100), max2(0, score))

\* the hours factor with its difference reversed
calculate_work_overload_reversed(work_hours, emails_per_day, meetings_per_week) ==
    LET hours_factor == min2(Fx(100), max2(0, (Fx(40) - work_hours) * 3))
        email_factor == min2(Fx(100), MulDec(Fx(emails_per_day - 50), 5, 10))
        meeting_factor == min2(Fx(100), Fx((meetings_per_week - 10) * 4))
        score == MulDec(hours_factor, 5, 10) + MulDec(email_factor, 25, 100)
                 + MulDec(meeting_factor, 25, 100)
    IN  min2(Fx(100), max2(0, score))

calculate_work_overload(work_hours, emails_per_day, meetings_per_week) ==
    LET hours_factor == min2(Fx(100), max2(0, (work_hours - Fx(40)) * 3))
        email_factor == min2(Fx(100), MulDec(Fx(emails_per_day - 50), 5, 10))
        meeting_factor == min2(Fx(100), Fx((meetings_per_week - 10) * 4))
        score == MulDec(hours_factor, 5, 10) + MulDec(email_factor, 25, 100)
                 + MulDec(meeting_factor, 25, 100)
    IN  min2(Fx(100), max2(0, score))

\* the stress_map of the phishing engine used in the burnout engine
BurnoutStressMap_phishing(level) ==
    CASE level = "Low" -> 20
      [] level = "Medium" -> 45
      [] level = "High" -> 70
      [] level = "Critical" -> 95
      [] OTHER -> 50

\* stress_map of calculate_burnout_score, with the .get default
BurnoutStressMap(level) ==
    CASE level = "Low" -> 25
      [] level = "Medium" -> 50
      [] level = "High" -> 75
      [] level = "Critical" -> 100
      [] OTHER -> 50

\* the weighted total of calculate_burnout_score, before it is rounded
BurnoutTotal(w, ee, dp, pa, wo) ==
    MulDec(ee, w.emotional_exhaustion, 100)
    + MulDec(dp, w.depersonalization, 100)
    + MulDec(pa, w.personal_accomplishment, 100)
    + MulDec(wo, w.work_overload, 100)

BurnoutLevel(total_score) ==
    IF total_score < Fx(30) THEN "Low Risk"
    ELSE IF total_score < Fx(50) THEN "Moderate Risk"
    ELSE IF total_score < Fx(70) THEN "High Risk"
    ELSE "Critical Risk"

BurnoutColor(total_score) ==
    IF total_score < Fx(30) THEN "green"
    ELSE IF total_score < Fx(50) THEN "yellow"
    ELSE IF total_score < Fx(70) THEN "orange"
    ELSE "red"

\* employee_data is a metrics record extended with stress_level; the four
\* components and the weighted total of calculate_burnout_score, as computed,
\* before the return statement rounds them
BurnoutScores(w, employee_data) ==
    LET stress_score == BurnoutStressMap(employee_data.stress_level)
        emotional_exhaustion ==
            calculate_emotional_exhaustion(employee_data.work_hours_per_week,
                employee_data.sleep_hours_per_day, stress_score)
        depersonalization ==
            calculate_depersonalization(employee_data.team_support,
                employee_data.work_life_balance, employee_data.meetings_per_week)
        personal_accomplishment ==
            calculate_personal_accomplishment(employee_data.task_complexity,
                employee_data.deadline_pressure)
        work_overload ==
            calculate_work_overload(employee_data.work_hours_per_week,
                employee_data.emails_per_day, employee_data.meetings_per_week)
    IN  [emotional_exhaustion |-> emotional_exhaustion,
         depersonalization |-> depersonalization,
         personal_accomplishment |-> personal_accomplishment,
         work_overload |-> work_overload,
         total_score |->
            BurnoutTotal(w, emotional_exhaustion, depersonalization,
                         personal_accomplishment, work_overload)]

calculate_burnout_score(w, employee_data) ==
    LET u == BurnoutScores(w, employee_data)
    IN  [total_score |-> Round2(u.total_score),
         level |-> BurnoutLevel(u.total_score),
         color |-> BurnoutColor(u.total_score),
         components |->
            [emotional_exhaustion |-> Round2(u.emotional_exhaustion),
             depersonalization |-> Round2(u.depersonalization),
             personal_accomplishment |-> Round2(u.personal_accomplishment),
             work_overload |-> Round2(u.work_overload)],
         weights |-> w]

\* burnout_data of analyze(): {**stress_features, 'stress_level': ...}
BurnoutData(m, level) ==
    [work_hours_per_week |-> m.work_hours_per_week,
     sleep_hours_per_day |-> m.sleep_hours_per_day,
     meetings_per_week |-> m.meetings_per_week,
     emails_per_day |-> m.emails_per_day,
     deadline_pressure |-> m.deadline_pressure,
     task_complexity |-> m.task_complexity,
     team_support |-> m.team_support,
     work_life_balance |-> m.work_life_balance,
     stress_level |-> level]

(***************************************************************************)
(* PhishingRiskEngine                                                      *)
(***************************************************************************)
\* PhishingRiskEngine.__init__: the risk factor weights, in hundredths
RiskFactors ==
    [stress_level |-> 25, burnout_score |-> 30, cognitive_load |-> 25,
     awareness_level |-> 20]

\* the email factor without its floor at 0
calculate_cognitive_load_nofloor(emails_per_day, meetings_per_week, task_complexity) ==
    LET email_factor == min2(Fx(100), MulDec(Fx(emails_per_day - 30), 7, 10))
        meeting_factor0 == min2(Fx(100), Fx((meetings_per_week - 5) * 3))
        meeting_factor == max2(0, meeting_factor0)
        complexity_factor == Fx(task_complexity * 10)
        score == MulDec(email_factor, 4, 10) + MulDec(meeting_factor, 3, 10)
                 + MulDec(complexity_factor, 3, 10)
    IN  min2(Fx(100), max2(0, score))

calculate_cognitive_load(emails_per_day, meetings_per_week, task_complexity) ==
    LET email_factor0 == min2(Fx(100), MulDec(Fx(emails_per_day - 30), 7, 10))
        email_factor == max2(0, email_factor0)
        meeting_factor0 == min2(Fx(100), Fx((meetings_per_week - 5) * 3))
        meeting_factor == max2(0, meeting_factor0)
        complexity_factor == Fx(task_complexity * 10)
        score == MulDec(email_factor, 4, 10) + MulDec(meeting_factor, 3, 10)
                 + MulDec(complexity_factor, 3, 10)
    IN  min2(Fx(100), max2(0, score))

estimate_awareness_level(work_hours, sleep_hours, work_life_balance) ==
    LET overwork_factor == min2(Fx(100), max2(0, (work_hours - Fx(40)) * 2))
        sleep_factor0 == max2(0, (Half(15) - sleep_hours) * 12)
        sleep_factor == min2(Fx(100), sleep_factor0)
        balance_factor == Fx((10 - work_life_balance) * 10)
        score == MulDec(overwork_factor, 35, 100) + MulDec(sleep_factor, 35, 100)
                 + MulDec(balance_factor, 30, 100)
    IN  min2(Fx(100), max2(0, score))

\* stress_map of calculate_vulnerability_index, with the .get default
PhishingStressMap(level) ==
    CASE level = "Low" -> 20
      [] level = "Medium" -> 45
      [] level = "High" -> 70
      [] level = "Critical" -> 95
      [] OTHER -> 50

\* the weighted total of calculate_vulnerability_index, before it is rounded
VulnerabilityTotal(rf, stress_score, burnout_score, cognitive_load, awareness_vulnerability) ==
    MulDec(Fx(stress_score), rf.stress_level, 100)
    + MulDec(burnout_score, rf.burnout_score, 100)
    + MulDec(cognitive_load, rf.cognitive_load, 100)
    + MulDec(awareness_vulnerability, rf.awareness_level, 100)

RiskLevel(vulnerability_index) ==
    IF vulnerability_index < Fx(30) THEN "Low Vulnerability"
    ELSE IF vulnerability_index < Fx(50) THEN "Moderate Vulnerability"
    ELSE IF vulnerability_index < Fx(70) THEN "High Vulnerability"
    ELSE "Critical Vulnerability"

RiskColor(vulnerability_index) ==
    IF vulnerability_index < Fx(30) THEN "green"
    ELSE IF vulnerability_index < Fx(50) THEN "yellow"
    ELSE IF vulnerability_index < Fx(70) THEN "orange"
    ELSE "red"

Recommendation(vulnerability_index) ==
    IF vulnerability_index < Fx(30) THEN "Maintain current security practices"
    ELSE IF vulnerability_index < Fx(50)
         THEN "Schedule security awareness refresher"
    ELSE IF vulnerability_index < Fx(70)
         THEN "Immediate security training required"
    ELSE "Urgent intervention needed - high phishing risk"

\* the multiplier read as "4 times per unit of index" instead of "up to 4x"
AttackSuccessPercent_times4(vulnerability_index) ==
    LET one == 100 * Scale
        multiplier == one + vulnerability_index * 4
        attack_success_probability ==
            min2(MulDec(one, 95, 100), MulDec(multiplier, 15, 100))
    IN  attack_success_probability

\* base_rate, multiplier and attack_success_probability * 100.  The
\* probability is held in units of 1/(100 * Scale), so that the percentage
\* (probability * 100) in units of 1/Scale is the same integer.
AttackSuccessPercent(vulnerability_index) ==
    LET one == 100 * Scale
        multiplier == one + vulnerability_index * 3
        attack_success_probability ==
            min2(MulDec(one, 95, 100), MulDec(multiplier, 15, 100))
    IN  attack_success_probability

\* the quantities of calculate_vulnerability_index, as computed, before the
\* return statement rounds them
VulnerabilityScores(rf, employee_data, stress, burnout) ==
    LET stress_score == PhishingStressMap(stress.stress_level)
        burnout_score == burnout.total_score
        cognitive_load ==
            calculate_cognitive_load(employee_data.emails_per_day,
                employee_data.meetings_per_week, employee_data.task_complexity)
        awareness_vulnerability ==
            estimate_awareness_level(employee_data.work_hours_per_week,
                employee_data.sleep_hours_per_day,
                employee_data.work_life_balance)
        vulnerability_index ==
            VulnerabilityTotal(rf, stress_score, burnout_score, cognitive_load,
                               awareness_vulnerability)
    IN  [vulnerability_index |-> vulnerability_index,
         attack_success_percent |-> AttackSuccessPercent(vulnerability_index),
         stress_contribution |->
            MulDec(Fx(stress_score), rf.stress_level, 100),
         burnout_contribution |->
            MulDec(burnout_score, rf.burnout_score, 100),
         cognitive_load |-> cognitive_load,
         awareness_vulnerability |-> awareness_vulnerability]

calculate_vulnerability_index(rf, employee_data, stress, burnout) ==
    LET u == VulnerabilityScores(rf, employee_data, stress, burnout)
    IN  [vulnerability_index |-> Round2(u.vulnerability_index),
         risk_level |-> RiskLevel(u.vulnerability_index),
         color |-> RiskColor(u.vulnerability_index),
         attack_success_probability |-> Round2(u.attack_success_percent),
         recommendation |-> Recommendation(u.vulnerability_index),
         risk_factors |->
            [stress_contribution |-> Round2(u.stress_contribution),
             burnout_contribution |-> Round2(u.burnout_contribution),
             cognitive_load |-> Round2(u.cognitive_load),
             awareness_vulnerability |-> Round2(u.awareness_vulnerability)],
         factor_weights |-> rf]

(***************************************************************************)
(* Inputs on which the fixed-point model is the float computation          *)
(*                                                                         *)
(* round(x, 2) rounds the binary float it is given.  When the exact value  *)
(* of x lies halfway between two hundredths the float is a hair above or   *)
(* below it, and the direction depends on representation error the fixed   *)
(* point does not carry.  A request is modelled only when no rounded       *)
(* quantity is such a half.  work_overload is exempt: it is built from     *)
(* halves, quarters and integers, which floats hold exactly, so its halves *)
(* round to even as Round2 does.                                           *)
(***************************************************************************)
IsHalf(x) == 2 * (x % (Scale \div 100)) = Scale \div 100

FloatExact(m, level) ==
    LET b == BurnoutScores(BurnoutWeights, BurnoutData(m, level))
        r == calculate_burnout_score(BurnoutWeights, BurnoutData(m, level))
        v == VulnerabilityScores(RiskFactors, m, [stress_level |-> level], r)
    IN  /\ ~IsHalf(b.total_score)
        /\ ~IsHalf(b.emotional_exhaustion)
        /\ ~IsHalf(b.depersonalization)
        /\ ~IsHalf(b.personal_accomplishment)
        /\ ~IsHalf(v.vulnerability_index)
        /\ ~IsHalf(v.attack_success_percent)
        /\ ~IsHalf(v.stress_contribution)
        /\ ~IsHalf(v.burnout_contribution)
        /\ ~IsHalf(v.cognitive_load)
        /\ ~IsHalf(v.awareness_vulnerability)

(***************************************************************************)
(* analyze(): one request through the scoring stages                       *)
(***************************************************************************)
\* no request body held and no response sent
RequestIdle == data = None /\ response = None

\* LLMExplainer() without an API key: the template renderer, nothing rendered
ExplainerIdle == use_openai = FALSE /\ client = None /\ explanation = None

\* DatasetLoader.__init__ with no dataset file loaded, no search made
SimilarityIdle ==
    dataset = None /\ query = None /\ top_n = 0 /\ similar = None

\* what train() dumps at model_path: the classifier and the label encoder
\* fitted with it, by the training run (1, 2, ...) that produced them
Dumped(run) == [model |-> [trained |-> run], label_encoder |-> [fitted |-> run]]

\* a file at model_path that joblib.load cannot read
Unreadable == [unreadable |-> TRUE]

\* LabelEncoder() as __init__ leaves it: not fitted
FreshEncoder == [fitted |-> 0]

\* a predictor whose model start-up has loaded, with no call in progress
PredictorIdle ==
    /\ model = Dumped(1).model
    /\ label_encoder = Dumped(1).label_encoder
    /\ artifact = Dumped(1)
    /\ calls = <<>>

Init ==
    /\ metrics \in MetricsRecords
    /\ stress_result = None
    /\ burnout_result = None
    /\ phishing_result = None
    /\ weights = BurnoutWeights
    /\ risk_factors = RiskFactors
    /\ pc = "predict"
    /\ RequestIdle
    /\ ExplainerIdle
    /\ SimilarityIdle
    /\ PredictorIdle
    /\ call_log = <<>>

\* 1. stress_predictor.predict with a model loaded: the classifier is a
\* trained artifact; any of the four categories may come back
AnalyzePredict ==
    /\ pc = "predict"
    /\ model # None
    /\ \E level \in StressLevels :
          /\ FloatExact(metrics, level)
          /\ stress_result' = [stress_level |-> level]
    /\ pc' = "burnout"
    /\ UNCHANGED <<metrics, burnout_result, phishing_result, weights,
                   risk_factors>>
    /\ UNCHANGED <<requestVars, explainerVars, similarityVars,
                   predictorVars, logVars>>

\* burnout scoring that ignores the category of this request
AnalyzeBurnout_default_level ==
    /\ pc = "burnout"
    /\ burnout_result' =
          calculate_burnout_score(weights, BurnoutData(metrics, "Medium"))
    /\ pc' = "phishing"
    /\ UNCHANGED <<metrics, stress_result, phishing_result, weights,
                   risk_factors>>
    /\ UNCHANGED <<requestVars, explainerVars, similarityVars,
                   predictorVars, logVars>>

\* 2. burnout_engine.calculate_burnout_score(burnout_data)
AnalyzeBurnout ==
    /\ pc = "burnout"
    /\ burnout_result' =
          calculate_burnout_score(weights,
              BurnoutData(metrics, stress_result.stress_level))
    /\ pc' = "phishing"
    /\ UNCHANGED <<metrics, stress_result, phishing_result, weights,
                   risk_factors>>
    /\ UNCHANGED <<requestVars, explainerVars, similarityVars,
                   predictorVars, logVars>>

\* phishing scoring that stores its clamped hours in the record it is given
AnalyzePhishing_in_place ==
    /\ pc = "phishing"
    /\ phishing_result' =
          calculate_vulnerability_index(risk_factors, metrics, stress_result,
                                        burnout_result)
    /\ metrics' = [metrics EXCEPT !.work_hours_per_week = max2(@, Fx(41))]
    /\ pc' = "explain"
    /\ UNCHANGED <<stress_result, burnout_result, weights, risk_factors>>
    /\ UNCHANGED <<requestVars, explainerVars, similarityVars,
                   predictorVars, logVars>>

\* 3. phishing_engine.calculate_vulnerability_index(...)
AnalyzePhishing ==
    /\ pc = "phishing"
    /\ phishing_result' =
          calculate_vulnerability_index(risk_factors, metrics, stress_result,
                                        burnout_result)
    /\ pc' = "explain"
    /\ UNCHANGED <<metrics, stress_result, burnout_result, weights,
                   risk_factors>>
    /\ UNCHANGED <<requestVars, explainerVars, similarityVars,
                   predictorVars, logVars>>

(***************************************************************************)
(* DatasetLoader.find_similar_cases                                        *)
(*                                                                         *)
(* A dataset is a DataFrame: a set of columns shared by all rows, the rows *)
(* in file order and the index label of each row.  A row is a function     *)
(* from the columns to values; employee_id is the position of the row in   *)
(* the file.  Field values are fixed point like the metrics.  The values   *)
(* of the grid are 0, 1/2 and powers of two or their negatives, so that    *)
(* every quotient                                                          *)
(* diff / max_val is a multiple of 1/SimUnit and every float of the        *)
(* computation is exact up to the final division by count; the average is  *)
(* held in units of 1/SimOne.                                              *)
(***************************************************************************)
MaxExp == 2
MaxCorpus == 3

\* the fields compared by find_similar_cases, in the order of the loop
SimilarityFields ==
    <<"work_hours_per_week", "sleep_hours_per_day", "meetings_per_week",
      "emails_per_day", "deadline_pressure", "task_complexity">>

ComparedFields == {SimilarityFields[i] : i \in 1..Len(SimilarityFields)}

PowerValues == {Fx(2 ^ k) : k \in 0..MaxExp}

\* a value far below the declared range, -1, 0, a fraction, and the powers
FieldValues ==
    {Fx(0 - 2 ^ (MaxExp + 1)), Fx(0 - 1), 0, Half(1)} \cup PowerValues

\* one term 1 - diff / max_val is a multiple of 1 / SimUnit
SimUnit == 2 * (2 ^ MaxExp)

\* score / count, count in 1..6, is a multiple of 1 / (60 * SimUnit)
SimOne == 60 * SimUnit

\* the ratio of the smaller to the larger value instead of 1 - diff / max_val
FieldSimilarity_ratio(a, b) ==
    LET max_val == max2(max2(a, b), Fx(1))
    IN  (SimUnit * min2(a, b)) \div max_val

\* the body of the loop over the fields: 1 - diff / max_val, in 1/SimUnit
FieldSimilarity(a, b) ==
    LET diff == Abs(a - b)
        max_val == max2(max2(a, b), Fx(1))
    IN  SimUnit - (SimUnit * diff) \div max_val

\* score and count after the first i fields of the loop
RECURSIVE ScoreAndCount(_, _, _)
ScoreAndCount(q, row, i) ==
    IF i = 0 THEN [score |-> 0, count |-> 0]
    ELSE LET before == ScoreAndCount(q, row, i - 1)
             field == SimilarityFields[i]
         IN  IF field \in DOMAIN q /\ field \in DOMAIN row
             THEN [score |-> before.score
                             + FieldSimilarity(q[field], row[field]),
                   count |-> before.count + 1]
             ELSE before

\* the score divided by the number of fields of the loop, compared or not
AvgSimilarity_allfields(q, row) ==
    LET sc == ScoreAndCount(q, row, Len(SimilarityFields))
    IN  sc.score * (60 \div Len(SimilarityFields))

\* avg_similarity = score / count if count > 0 else 0, in 1/SimOne
AvgSimilarity(q, row) ==
    LET sc == ScoreAndCount(q, row, Len(SimilarityFields))
    IN  IF sc.count > 0 THEN sc.score * (60 \div sc.count) ELSE 0

\* similarity_scores: one (idx, avg_similarity) per row, idx the index label
RECURSIVE SimilarityScores(_, _, _)
SimilarityScores(q, d, i) ==
    IF i = 0 THEN <<>>
    ELSE Append(SimilarityScores(q, d, i - 1),
                [idx |-> d.index[i],
                 similarity |-> AvgSimilarity(q, d.rows[i])])

\* one element put into a list sorted by similarity, largest first, after
\* the elements of equal similarity already there
InsertDescending(sorted, e) ==
    LET before == {j \in 1..Len(sorted) :
                      sorted[j].similarity >= e.similarity}
        k == Cardinality(before)
    IN  SubSeq(sorted, 1, k) \o <<e>> \o SubSeq(sorted, k + 1, Len(sorted))

\* similarity_scores.sort(key=lambda x: x[1], reverse=True): a stable sort
RECURSIVE SortDescending(_, _)
SortDescending(scores, i) ==
    IF i = 0 THEN <<>>
    ELSE InsertDescending(SortDescending(scores, i - 1), scores[i])

\* similarity_scores[:n]
TopCases(sorted, k) ==
    IF k >= 0 THEN SubSeq(sorted, 1, min2(k, Len(sorted)))
    ELSE SubSeq(sorted, 1, max2(0, Len(sorted) + k))

\* self.dataset.iloc[idx] is positional: idx counts rows from 0, a negative
\* idx from the end, and any other idx raises IndexError
IlocInBounds(d, idx) == idx >= 0 - Len(d.rows) /\ idx < Len(d.rows)

Iloc(d, idx) ==
    IF idx >= 0 THEN d.rows[idx + 1] ELSE d.rows[Len(d.rows) + idx + 1]

\* case = row.to_dict(); case['similarity_score'] = similarity
WithSimilarity(row, similarity) ==
    [f \in DOMAIN row \cup {"similarity_score"} |->
        IF f = "similarity_score" THEN similarity ELSE row[f]]

IndexError == [error |-> "IndexError"]

\* the list a call returns
Returned(cases) == [cases |-> cases]

find_similar_cases(d, q, k) ==
    IF d = None THEN Returned(<<>>)
    ELSE IF Len(d.rows) = 0 THEN Returned(<<>>)
    ELSE LET similarity_scores == SimilarityScores(q, d, Len(d.rows))
             sorted == SortDescending(similarity_scores,
                                      Len(similarity_scores))
             top_cases == TopCases(sorted, k)
         IN  IF \E j \in 1..Len(top_cases) :
                    ~IlocInBounds(d, top_cases[j].idx)
             THEN IndexError
             ELSE Returned([j \in 1..Len(top_cases) |->
                      WithSimilarity(Iloc(d, top_cases[j].idx),
                                     top_cases[j].similarity)])

(***************************************************************************)
(* Inputs of find_similar_cases: datasets as load_dataset leaves them and  *)
(* the employee_data of a call                                             *)
(***************************************************************************)
\* a row with every compared column at 1 except hours and emails
Row(cols, h, e, id) ==
    [f \in cols \cup {"employee_id"} |->
        IF f = "employee_id" THEN id
        ELSE IF f = "work_hours_per_week" THEN h
        ELSE IF f = "emails_per_day" THEN e
        ELSE Fx(1)]

\* read_csv and a JSON list of records number the rows from 0
RangeIndex(len) == [i \in 1..len |-> i - 1]

\* a JSON file keyed by row labels keeps its labels: ids counted from 1
OneBasedIndex(len) == [i \in 1..len |-> i]

\* ... or labels in decreasing order
ReversedIndex(len) == [i \in 1..len |-> len - i]

IndexLabels(len) == {RangeIndex(len), OneBasedIndex(len), ReversedIndex(len)}

DataFrame(cols, labels, hs, es) ==
    [columns |-> cols, index |-> labels,
     rows |-> [i \in 1..Len(hs) |-> Row(cols, hs[i], es[i], i)]]

Ones(len) == [i \in 1..len |-> Fx(1)]

\* corpora of up to MaxCorpus rows that differ in their hours
OrderedCorpora ==
    UNION {{DataFrame(ComparedFields, labels, hs, Ones(len)) :
               hs \in [1..len -> PowerValues], labels \in IndexLabels(len)} :
           len \in 0..MaxCorpus}

\* one-row corpora over every value of the grid, in hours or in emails
SingleCorpora ==
    {DataFrame(ComparedFields, RangeIndex(1), <<v>>, <<Fx(1)>>) :
        v \in FieldValues}
    \cup {DataFrame(ComparedFields, RangeIndex(1), <<Fx(1)>>, <<v>>) :
             v \in FieldValues}

FirstThree == {SimilarityFields[i] : i \in 1..3}

\* datasets that lack compared columns
ColumnSets == {ComparedFields, FirstThree, {}}

PartialCorpora ==
    {DataFrame(cols, RangeIndex(2), <<Fx(1), Fx(2)>>, <<Fx(1), Fx(1)>>) :
        cols \in ColumnSets}

\* the employee_data of a call: the compared fields of dom and the two
\* metrics that are not compared
EmployeeQuery(dom, h, e) ==
    [f \in dom \cup {"team_support", "work_life_balance"} |->
        IF f = "work_hours_per_week" THEN h
        ELSE IF f = "emails_per_day" THEN e
        ELSE Fx(1)]

FullQueries ==
    {EmployeeQuery(ComparedFields, v, Fx(1)) : v \in FieldValues}
    \cup {EmployeeQuery(ComparedFields, Fx(1), v) : v \in FieldValues}

QueryDomains ==
    {ComparedFields, {"work_hours_per_week", "task_complexity"},
     {"task_complexity"}, {}}

PartialQueries == {EmployeeQuery(dom, Fx(2), Fx(1)) : dom \in QueryDomains}

SimilarityCall(d, q, k) == [dataset |-> d, query |-> q, n |-> k]

SimilarityInputs ==
    {SimilarityCall(d, q, k) :
        d \in OrderedCorpora \cup SingleCorpora \cup {None},
        q \in FullQueries, k \in 0..(MaxCorpus + 1)}
    \cup {SimilarityCall(d, q, k) :
             d \in PartialCorpora \cup SingleCorpora,
             q \in PartialQueries, k \in 1..2}

\* the engines constructed, no request in progress
ScoreIdle ==
    /\ metrics = None
    /\ stress_result = None
    /\ burnout_result = None
    /\ phishing_result = None
    /\ weights = BurnoutWeights
    /\ risk_factors = RiskFactors

SimilarityInit ==
    /\ \E inp \in SimilarityInputs :
          /\ dataset = inp.dataset
          /\ query = inp.query
          /\ top_n = inp.n
    /\ similar = None
    /\ pc = "similar"
    /\ ScoreIdle
    /\ RequestIdle
    /\ ExplainerIdle
    /\ PredictorIdle
    /\ call_log = <<>>

\* similar = loader.find_similar_cases(employee_data, n)
FindSimilarCases ==
    /\ pc = "similar"
    /\ similar' = find_similar_cases(dataset, query, top_n)
    /\ pc' = "done"
    /\ UNCHANGED <<dataset, query, top_n>>
    /\ UNCHANGED <<metrics, stress_result, burnout_result, phishing_result,
                   weights, risk_factors>>
    /\ UNCHANGED <<requestVars, explainerVars, predictorVars, logVars>>

SimilarityNext == FindSimilarCases

SimilaritySpec == SimilarityInit /\ [][SimilarityNext]_vars

(***************************************************************************)
(* LLMExplainer: the template renderer.  A text is held as the record of   *)
(* its parts, each part named by the words that tell its branch from the   *)
(* others, and the numbers it prints.                                      *)
(***************************************************************************)
\* the tiers chosen by the burnout score alone
Opening_score_only(burnout_score, stress_level) ==
    IF burnout_score >= Fx(70)
    THEN "This situation requires immediate attention."
    ELSE IF burnout_score >= Fx(50)
    THEN "indicating elevated risk that should be addressed proactively."
    ELSE "showing relatively healthy work patterns."

\* "Opening based on risk level"
Opening(burnout_score, stress_level) ==
    IF burnout_score >= Fx(70) \/ stress_level = "Critical"
    THEN "This situation requires immediate attention."
    ELSE IF burnout_score >= Fx(50) \/ stress_level = "High"
    THEN "indicating elevated risk that should be addressed proactively."
    ELSE "showing relatively healthy work patterns."

\* dataset_stats_text is part of the first opening only; -1: no such text
OpeningStats(d, burnout_score, stress_level) ==
    IF d # None /\ (burnout_score >= Fx(70) \/ stress_level = "Critical")
    THEN Len(d.rows)
    ELSE 0 - 1

\* "Key factors analysis": the factors in the order they are appended
KeyFactors(inputs) ==
    (IF inputs.work_hours_per_week > Fx(50)
     THEN <<"above recommended levels">> ELSE <<>>)
    \o (IF inputs.sleep_hours_per_day < Half(13)
        THEN <<"below optimal">> ELSE <<>>)
    \o (IF inputs.meetings_per_week > 20
        THEN <<"high meeting load">> ELSE <<>>)
    \o (IF inputs.emails_per_day > 100
        THEN <<"significant communication overhead">> ELSE <<>>)

FactorText(inputs) ==
    IF KeyFactors(inputs) # <<>>
    THEN "Key contributing factors include"
    ELSE "Work metrics are within normal ranges."

\* "Security risk assessment": the sentence appended to security_text
SecurityQualifier(vulnerability_index) ==
    IF vulnerability_index >= Fx(70)
    THEN "This elevated vulnerability requires urgent security awareness training"
    ELSE IF vulnerability_index >= Fx(50)
    THEN "This moderate vulnerability suggests scheduling a security awareness refresher"
    ELSE "This relatively low vulnerability indicates good security awareness"

\* "Recommendations"
Recommendations(burnout_score, inputs, vulnerability_index) ==
    LET recommendations ==
            (IF burnout_score >= Fx(70)
             THEN <<"Immediate workload review", "wellness consultation">>
             ELSE IF burnout_score >= Fx(50)
             THEN <<"Schedule a check-in", "flexible work arrangements">>
             ELSE <<>>)
            \o (IF inputs.sleep_hours_per_day < Half(13)
                THEN <<"better sleep hygiene">> ELSE <<>>)
            \o (IF inputs.meetings_per_week > 20
                THEN <<"Audit meeting necessity">> ELSE <<>>)
            \o (IF vulnerability_index >= Fx(50)
                THEN <<"targeted security awareness training",
                       "email filtering">>
                ELSE <<>>)
    IN  IF recommendations = <<>>
        THEN <<"monitoring", "support structures">>
        ELSE recommendations

\* results['inputs'] as find_similar_cases reads it: float(employee_data[f])
InputsAsQuery(inputs) ==
    [f \in DOMAIN inputs |->
        IF f \in {"work_hours_per_week", "sleep_hours_per_day"}
        THEN inputs[f] ELSE Fx(inputs[f])]

\* one line per similar case: case.get('burnout_score', 0) and
\* case.get('outcome', 'No outcome data')
SimilarCasesText(cases) ==
    [j \in 1..Len(cases) |->
        [burnout_score |->
            IF "burnout_score" \in DOMAIN cases[j]
            THEN cases[j]["burnout_score"] ELSE 0,
         outcome |->
            IF "outcome" \in DOMAIN cases[j]
            THEN cases[j]["outcome"] ELSE "No outcome data"]]

\* combined_results of analyze()
Results(stress, burnout, phishing, inputs) ==
    [stress |-> stress, burnout |-> burnout, phishing |-> phishing,
     inputs |-> inputs]

\* the text of generate_explanation_template from its parts
TemplateText(d, results, similar_cases) ==
    LET stress_level == results.stress.stress_level
        burnout_score == results.burnout.total_score
        vulnerability_index == results.phishing.vulnerability_index
    IN  [kind |-> "template",
         opening |-> Opening(burnout_score, stress_level),
         stress_level |-> stress_level,
         burnout_score |-> burnout_score,
         burnout_level |-> results.burnout.level,
         total_employees |-> OpeningStats(d, burnout_score, stress_level),
         factor_text |-> FactorText(results.inputs),
         factors |-> KeyFactors(results.inputs),
         vulnerability_index |-> vulnerability_index,
         phishing_risk |-> results.phishing.risk_level,
         attack_success_probability |->
            results.phishing.attack_success_probability,
         security_text |-> SecurityQualifier(vulnerability_index),
         recommendations |->
            Recommendations(burnout_score, results.inputs,
                            vulnerability_index),
         similar_cases |-> SimilarCasesText(similar_cases)]

\* generate_explanation_template: the similar cases are searched first, and
\* an exception of the search leaves the method
generate_explanation_template(d, results) ==
    LET similar_cases ==
            IF d # None
            THEN find_similar_cases(d, InputsAsQuery(results.inputs), 2)
            ELSE Returned(<<>>)
    IN  IF similar_cases = IndexError THEN IndexError
        ELSE TemplateText(d, results, similar_cases.cases)

(***************************************************************************)
(* LLMExplainer: the generative path.  The openai package and the service  *)
(* behind it are not part of the repository: what they do is a choice      *)
(* among the outcomes the calls of the source can have.                    *)
(***************************************************************************)
\* from openai import OpenAI; self.client = OpenAI(api_key=self.api_key)
ClientOutcomes == {"client", "ImportError", "construction raises"}

\* self.client.chat.completions.create(...) and
\* response.choices[0].message.content
BackendOutcomes ==
    {"content is text", "create raises", "no choices", "no content attribute",
     "content is None"}

\* the value None as a method returns it
PyNone == [value |-> "None"]

GeneratedText == [kind |-> "generated"]

\* an exception leaving a constructor or a method
Raised(exception) == [raised |-> exception]

\* generate_explanation_openai: the dataset context is built before the try
generate_explanation_openai(d, results, outcome) ==
    LET dataset_context ==
            IF d # None
            THEN find_similar_cases(d, InputsAsQuery(results.inputs), 3)
            ELSE Returned(<<>>)
    IN  IF dataset_context = IndexError THEN IndexError
        ELSE IF outcome = "content is text" THEN GeneratedText
        ELSE IF outcome = "content is None" THEN PyNone
        ELSE generate_explanation_template(d, results)

generate_explanation(openai, d, results, outcome) ==
    IF openai THEN generate_explanation_openai(d, results, outcome)
    ELSE generate_explanation_template(d, results)

(***************************************************************************)
(* analyze(): the request body.  A JSON value is a number, a string (one   *)
(* that spells a number, with or without a decimal point, or any other     *)
(* text), true/false, null, or a list or object.                           *)
(***************************************************************************)
RawNumber(v) == [kind |-> "number", value |-> v]

RawNumericString(v, point) ==
    [kind |-> "numeric string", value |-> v, point |-> point]

RawBool(b) == [kind |-> "bool", value |-> IF b THEN 1 ELSE 0]

RawText == [kind |-> "text"]

RawNull == [kind |-> "null"]

RawList == [kind |-> "list"]

Converted(v) == [converted |-> v]

\* float(x)
PyFloat(x) ==
    IF x.kind \in {"number", "numeric string"} THEN Converted(x.value)
    ELSE IF x.kind = "bool" THEN Converted(Fx(x.value))
    ELSE IF x.kind = "text" THEN Raised("ValueError")
    ELSE Raised("TypeError")

\* int(x): a number is truncated towards zero, a string must spell an integer
PyInt(x) ==
    LET truncated(v) ==
            IF v >= 0 THEN v \div Scale ELSE 0 - ((0 - v) \div Scale)
    IN  IF x.kind = "number" THEN Converted(truncated(x.value))
        ELSE IF x.kind = "numeric string"
        THEN IF x.point THEN Raised("ValueError")
             ELSE Converted(truncated(x.value))
        ELSE IF x.kind = "bool" THEN Converted(x.value)
        ELSE IF x.kind = "text" THEN Raised("ValueError")
        ELSE Raised("TypeError")

MetricFields ==
    {"work_hours_per_week", "sleep_hours_per_day", "meetings_per_week",
     "emails_per_day", "deadline_pressure", "task_complexity",
     "team_support", "work_life_balance"}

FloatFields == {"work_hours_per_week", "sleep_hours_per_day"}

\* the second argument of each data.get of stress_features
DefaultOf(field) ==
    CASE field = "work_hours_per_week" -> 40
      [] field = "sleep_hours_per_day" -> 7
      [] field = "meetings_per_week" -> 15
      [] field = "emails_per_day" -> 75
      [] OTHER -> 5

\* a lookup that takes an absent key for an unusable value
DataGet_required(body, field, default) ==
    IF field \in DOMAIN body THEN body[field] ELSE RawNull

\* data.get(field, default)
DataGet(body, field, default) ==
    IF field \in DOMAIN body THEN body[field] ELSE RawNumber(Fx(default))

\* one entry of stress_features: float(data.get(..)) or int(data.get(..))
Feature(body, field) ==
    IF field \in FloatFields
    THEN PyFloat(DataGet(body, field, DefaultOf(field)))
    ELSE PyInt(DataGet(body, field, DefaultOf(field)))

\* the fields in the order of the dict display of stress_features
FeatureOrder ==
    <<"work_hours_per_week", "sleep_hours_per_day", "meetings_per_week",
      "emails_per_day", "deadline_pressure", "task_complexity",
      "team_support", "work_life_balance">>

Raises(outcome) == "raised" \in DOMAIN outcome

\* stress_features, or the exception of the first conversion that fails
StressFeatures(body) ==
    LET failing == {i \in 1..Len(FeatureOrder) :
                       Raises(Feature(body, FeatureOrder[i]))}
    IN  IF failing # {}
        THEN Feature(body, FeatureOrder[
                 CHOOSE i \in failing : \A k \in failing : i <= k])
        ELSE [f \in MetricFields |-> Feature(body, f).converted]

\* the request of the engines' own test, and each field of it replaced by
\* every kind of JSON value or left out
FixtureBody ==
    [f \in MetricFields |->
        IF f \in FloatFields THEN RawNumber(FixtureRecord[f])
        ELSE RawNumber(Fx(FixtureRecord[f]))]

RawValues ==
    {RawNumber(Half(11)), RawNumericString(Fx(6), FALSE),
     RawNumericString(Half(13), TRUE), RawBool(TRUE), RawText, RawNull,
     RawList}

Without(body, field) == [f \in DOMAIN body \ {field} |-> body[f]]

RequestBodies ==
    {FixtureBody, [f \in {} |-> RawNull]}
    \cup {[FixtureBody EXCEPT ![f] = v] : f \in MetricFields, v \in RawValues}
    \cup {Without(FixtureBody, f) : f \in MetricFields}
    \cup {Without(Without(FixtureBody, f), "emails_per_day") :
             f \in MetricFields}

\* the except clause of analyze: jsonify({'success': False, ...}), 400
ErrorResponse(exception) ==
    [success |-> FALSE, status |-> 400, error |-> exception]

\* jsonify(response)
SuccessResponse(stress, burnout, phishing, text, inputs) ==
    [success |-> TRUE, status |-> 200, stress |-> stress,
     burnout |-> burnout, phishing |-> phishing, explanation |-> text,
     inputs |-> inputs]

(***************************************************************************)
(* analyze(): the request from its body to its response                    *)
(***************************************************************************)
\* data = request.json and the construction of stress_features; a failed
\* conversion ends the request in the except clause
AnalyzeParse ==
    /\ pc = "parse"
    /\ LET features == StressFeatures(data)
       IN  IF Raises(features)
           THEN /\ response' = ErrorResponse(features.raised)
                /\ pc' = "done"
                /\ UNCHANGED metrics
           ELSE /\ metrics' = features
                /\ pc' = "predict"
                /\ UNCHANGED response
    /\ UNCHANGED <<data, stress_result, burnout_result, phishing_result,
                   weights, risk_factors>>
    /\ UNCHANGED <<explainerVars, similarityVars, predictorVars, logVars>>

\* n of the last find_similar_cases call generate_explanation makes: 3 in
\* get_context_for_llm, 2 in the template renderer
LastSearchN(openai, d, results, outcome) ==
    IF /\ openai
       /\ \/ outcome \in {"content is text", "content is None"}
          \/ find_similar_cases(d, InputsAsQuery(results.inputs), 3)
                = IndexError
    THEN 3
    ELSE 2

\* 4. llm_explainer.generate_explanation(employee_name, combined_results);
\* with a dataset loaded the similar cases are searched on the way, and
\* query, top_n and similar hold the last search
GenerateExplanation ==
    /\ pc = "explain"
    /\ \E outcome \in IF use_openai THEN BackendOutcomes ELSE {"not called"} :
          LET results == Results(stress_result, burnout_result,
                                 phishing_result, metrics)
          IN  /\ explanation' =
                    generate_explanation(use_openai, dataset, results, outcome)
              /\ IF dataset = None
                 THEN UNCHANGED <<query, top_n, similar>>
                 ELSE /\ query' = InputsAsQuery(metrics)
                      /\ top_n' =
                            LastSearchN(use_openai, dataset, results, outcome)
                      /\ similar' =
                            find_similar_cases(dataset, query', top_n')
    /\ pc' = "respond"
    /\ UNCHANGED dataset
    /\ UNCHANGED <<metrics, stress_result, burnout_result, phishing_result,
                   weights, risk_factors>>
    /\ UNCHANGED <<use_openai, client>>
    /\ UNCHANGED <<requestVars, predictorVars, logVars>>

\* the response: the envelope of the results, or the except clause when
\* generate_explanation raised
AnalyzeRespond ==
    /\ pc = "respond"
    /\ response' =
          IF Raises(explanation) \/ explanation = IndexError
          THEN ErrorResponse("generate_explanation")
          ELSE SuccessResponse(stress_result, burnout_result,
                               phishing_result, explanation, metrics)
    /\ pc' = "done"
    /\ UNCHANGED <<metrics, stress_result, burnout_result, phishing_result,
                   weights, risk_factors>>
    /\ UNCHANGED data
    /\ UNCHANGED <<explainerVars, similarityVars, predictorVars, logVars>>

Next ==
    \/ AnalyzePredict
    \/ AnalyzeBurnout
    \/ AnalyzePhishing
    \/ GenerateExplanation
    \/ AnalyzeRespond

Spec == Init /\ [][Next]_vars

\* a request arrives with its body
RequestInit ==
    /\ data \in RequestBodies
    /\ response = None
    /\ pc = "parse"
    /\ ScoreIdle
    /\ ExplainerIdle
    /\ SimilarityIdle
    /\ PredictorIdle
    /\ call_log = <<>>

RequestNext == AnalyzeParse \/ Next

RequestSpec == RequestInit /\ [][RequestNext]_vars

(***************************************************************************)
(* Scoring calls made one after another, in any order, on the same         *)
(* BurnoutEngine, PhishingRiskEngine and DatasetLoader.  The caller keeps  *)
(* the results it got last and passes them on as upstream results, as      *)
(* analyze() does; call_log records each call with what it returned.       *)
(***************************************************************************)
MaxCalls == 3

CallRecords == {FixtureRecord, DefaultRecord}

CallLevels == {"Low", "High"}

CallDataset ==
    DataFrame(ComparedFields, RangeIndex(2), <<Fx(1), Fx(2)>>, Ones(2))

CallQueries ==
    {EmployeeQuery(ComparedFields, Fx(1), Fx(1)),
     EmployeeQuery(ComparedFields, Fx(2), Fx(1))}

Logged(call, result) == [call |-> call, result |-> result]

CallsInit ==
    /\ ScoreIdle
    /\ pc = "calls"
    /\ dataset = CallDataset
    /\ query = None
    /\ top_n = 0
    /\ similar = None
    /\ RequestIdle
    /\ ExplainerIdle
    /\ PredictorIdle
    /\ call_log = <<>>

\* a scoring call that also shifts weight towards work_overload
ScoreBurnout_adjusting ==
    /\ pc = "calls"
    /\ Len(call_log) < MaxCalls
    /\ \E m \in CallRecords, level \in CallLevels :
          /\ FloatExact(m, level)
          /\ metrics' = m
          /\ stress_result' = [stress_level |-> level]
          /\ burnout_result' =
                calculate_burnout_score(weights, BurnoutData(m, level))
          /\ call_log' =
                Append(call_log,
                       Logged([op |-> "calculate_burnout_score",
                               employee_data |-> BurnoutData(m, level)],
                              burnout_result'))
    /\ weights' = [weights EXCEPT !.emotional_exhaustion = @ - 5,
                                  !.work_overload = @ + 5]
    /\ UNCHANGED <<phishing_result, risk_factors, pc>>
    /\ UNCHANGED <<requestVars, explainerVars, similarityVars,
                   predictorVars>>

\* burnout_engine.calculate_burnout_score(employee_data)
ScoreBurnout ==
    /\ pc = "calls"
    /\ Len(call_log) < MaxCalls
    /\ \E m \in CallRecords, level \in CallLevels :
          /\ FloatExact(m, level)
          /\ metrics' = m
          /\ stress_result' = [stress_level |-> level]
          /\ burnout_result' =
                calculate_burnout_score(weights, BurnoutData(m, level))
          /\ call_log' =
                Append(call_log,
                       Logged([op |-> "calculate_burnout_score",
                               employee_data |-> BurnoutData(m, level)],
                              burnout_result'))
    /\ UNCHANGED <<phishing_result, weights, risk_factors, pc>>
    /\ UNCHANGED <<requestVars, explainerVars, similarityVars,
                   predictorVars>>

\* phishing_engine.calculate_vulnerability_index(employee_data,
\* stress_result, burnout_result) on the results the caller holds
ScoreVulnerability ==
    /\ pc = "calls"
    /\ Len(call_log) < MaxCalls
    /\ burnout_result # None
    /\ phishing_result' =
          calculate_vulnerability_index(risk_factors, metrics, stress_result,
                                        burnout_result)
    /\ call_log' =
          Append(call_log,
                 Logged([op |-> "calculate_vulnerability_index",
                         employee_data |-> metrics,
                         stress_result |-> stress_result,
                         burnout_result |-> burnout_result],
                        phishing_result'))
    /\ UNCHANGED <<metrics, stress_result, burnout_result, weights,
                   risk_factors, pc>>
    /\ UNCHANGED <<requestVars, explainerVars, similarityVars,
                   predictorVars>>

\* dataset_loader.find_similar_cases(employee_data, n)
SearchSimilar ==
    /\ pc = "calls"
    /\ Len(call_log) < MaxCalls
    /\ \E q \in CallQueries, k \in 1..2 :
          /\ query' = q
          /\ top_n' = k
          /\ similar' = find_similar_cases(dataset, q, k)
          /\ call_log' =
                Append(call_log,
                       Logged([op |-> "find_similar_cases",
                               employee_data |-> q, n |-> k], similar'))
    /\ UNCHANGED dataset
    /\ UNCHANGED <<scoreVars, requestVars, explainerVars, predictorVars>>

CallsNext == ScoreBurnout \/ ScoreVulnerability \/ SearchSimilar

CallsSpec == CallsInit /\ [][CallsNext]_vars

(***************************************************************************)
(* A caller that writes into the results it was given.  The 'weights' of a *)
(* burnout result is the dict self.weights of the engine, and the          *)
(* 'factor_weights' of a phishing result is self.risk_factors: the same    *)
(* objects, not copies, so a write through the result is a write into the  *)
(* engine.  call_log keeps each result as it was when it was returned.     *)
(***************************************************************************)
\* result['weights'][key] = value on the burnout result the caller holds,
\* half of all the weight or all of it; one write is followed here
ModifyReturnedWeights ==
    /\ pc = "calls"
    /\ burnout_result # None
    /\ weights = BurnoutWeights
    /\ \E key \in DOMAIN weights, value \in {50, 100} :
          /\ weights' = [weights EXCEPT ![key] = value]
          /\ burnout_result' = [burnout_result EXCEPT !.weights = weights']
    /\ UNCHANGED <<metrics, stress_result, phishing_result, risk_factors, pc>>
    /\ UNCHANGED <<requestVars, explainerVars, similarityVars,
                   predictorVars, logVars>>

\* result['factor_weights'][key] = value on the phishing result held
ModifyReturnedFactorWeights ==
    /\ pc = "calls"
    /\ phishing_result # None
    /\ risk_factors = RiskFactors
    /\ \E key \in DOMAIN risk_factors, value \in {50, 100} :
          /\ risk_factors' = [risk_factors EXCEPT ![key] = value]
          /\ phishing_result' =
                [phishing_result EXCEPT !.factor_weights = risk_factors']
    /\ UNCHANGED <<metrics, stress_result, burnout_result, weights, pc>>
    /\ UNCHANGED <<requestVars, explainerVars, similarityVars,
                   predictorVars, logVars>>

CallerNext ==
    \/ ScoreBurnout
    \/ ScoreVulnerability
    \/ ModifyReturnedWeights
    \/ ModifyReturnedFactorWeights

CallerSpec == CallsInit /\ [][CallerNext]_vars

(***************************************************************************)
(* LLMExplainer used on its own, as the __main__ block of llm_explainer.py *)
(* does: the explainer is constructed, with or without an API key, and     *)
(* generate_explanation is called on results the caller supplies.          *)
(***************************************************************************)
\* burnout['total_score'] values around the thresholds of the narrative,
\* with the 68 of the fixture
NarrativeScores ==
    {Fx(k) : k \in {0, 30, 49, 50, 68, 69, 70, 100}}
    \cup {Fx(50) - Scale \div 100, Fx(70) - Scale \div 100}

\* phishing['vulnerability_index'] values, with the 64 of the fixture
NarrativeIndices == {Fx(k) : k \in {10, 30, 49, 50, 64, 70, 90}}

NarrativeBurnout(total_score) ==
    [total_score |-> total_score, level |-> BurnoutLevel(total_score)]

NarrativePhishing(vulnerability_index) ==
    [vulnerability_index |-> vulnerability_index,
     risk_level |-> RiskLevel(vulnerability_index),
     attack_success_probability |->
        Round2(AttackSuccessPercent(vulnerability_index))]

\* LLMExplainer(api_key, dataset_file) is about to be constructed; the
\* caller holds the results it will pass
ExplainerInit ==
    /\ pc = "construct"
    /\ use_openai \in BOOLEAN
    /\ client = None
    /\ explanation = None
    /\ dataset \in {None, CallDataset}
    /\ query = None
    /\ top_n = 0
    /\ similar = None
    /\ metrics \in {FixtureRecord, DefaultRecord}
    /\ stress_result \in {[stress_level |-> level] : level \in StressLevels}
    /\ burnout_result \in {NarrativeBurnout(t) : t \in NarrativeScores}
    /\ phishing_result \in {NarrativePhishing(v) : v \in NarrativeIndices}
    /\ weights = BurnoutWeights
    /\ risk_factors = RiskFactors
    /\ RequestIdle
    /\ PredictorIdle
    /\ call_log = <<>>

\* __init__, once use_openai is set from the key: with a key the package is
\* imported and the client constructed; only ImportError is caught there
ExplainerConstruct ==
    /\ pc = "construct"
    /\ \E outcome \in
            IF use_openai THEN ClientOutcomes ELSE {"no key"} :
          /\ use_openai' = (use_openai /\ outcome # "ImportError")
          /\ client' =
                IF outcome = "client" THEN [client |-> "OpenAI"] ELSE None
          /\ pc' =
                IF outcome = "construction raises" THEN "raised"
                ELSE "explain"
    /\ UNCHANGED explanation
    /\ UNCHANGED <<metrics, stress_result, burnout_result, phishing_result,
                   weights, risk_factors>>
    /\ UNCHANGED <<requestVars, similarityVars, predictorVars, logVars>>

ExplainerNext == ExplainerConstruct \/ GenerateExplanation

ExplainerSpec == ExplainerInit /\ [][ExplainerNext]_vars

(***************************************************************************)
(* StressLevelPredictor: predict, load_model and train on one predictor.   *)
(* A call of predict goes through the statements of the source one at a    *)
(* time: the test of self.model, load_model (joblib.load and the           *)
(* assignment of self.model, then the assignment of self.label_encoder),   *)
(* and the inference.  Here the calls are made one after another.          *)
(***************************************************************************)
MaxPredicts == 3

MaxTrain == 2

\* raise ValueError("Model not trained or loaded")
ModelUnavailable == Raised("ValueError: Model not trained or loaded")

\* whatever joblib.load raises on a file it cannot read
LoadError == Raised("joblib.load")

\* inverse_transform of a label encoder that was never fitted
NotFitted == Raised("NotFittedError")

Finished(call) == call.pc \in {"returned", "raised"}

NoCallInProgress == \A i \in 1..Len(calls) : Finished(calls[i])

\* the training run of what the predictor or the file holds, 0 if neither
LastRun ==
    max2(IF model = None THEN 0 ELSE model.trained,
         IF artifact = None \/ artifact = Unreadable THEN 0
         ELSE artifact.model.trained)

\* StressLevelPredictor(): nothing loaded; the file at model_path is
\* missing, unreadable or the dump of an earlier training
PredictorInit ==
    /\ pc = "predictor"
    /\ model = None
    /\ label_encoder = FreshEncoder
    /\ artifact \in {None, Unreadable, Dumped(1)}
    /\ calls = <<>>
    /\ ScoreIdle
    /\ RequestIdle
    /\ ExplainerIdle
    /\ SimilarityIdle
    /\ call_log = <<>>

\* predict(features) is called
PredictEnter ==
    /\ pc = "predictor"
    /\ Len(calls) < MaxPredicts
    /\ NoCallInProgress
    /\ calls' = Append(calls, [pc |-> "check", result |-> None,
                               model_data |-> None, loaded |-> FALSE])
    /\ UNCHANGED <<model, label_encoder, artifact>>
    /\ UNCHANGED <<scoreVars, requestVars, explainerVars, similarityVars,
                   logVars>>

\* if self.model is None:
PredictCheck(i) ==
    /\ calls[i].pc = "check"
    /\ calls' = [calls EXCEPT ![i].pc =
                    IF model = None THEN "load" ELSE "infer"]
    /\ UNCHANGED <<model, label_encoder, artifact>>
    /\ UNCHANGED <<scoreVars, requestVars, explainerVars, similarityVars,
                   logVars>>

\* load_model(): os.path.exists, joblib.load, self.model = ...; without a
\* file it returns False and predict raises
PredictLoad(i) ==
    /\ calls[i].pc = "load"
    /\ IF artifact = None
       THEN /\ calls' = [calls EXCEPT ![i].pc = "raised",
                                      ![i].result = ModelUnavailable]
            /\ UNCHANGED model
       ELSE IF artifact = Unreadable
       THEN /\ calls' = [calls EXCEPT ![i].pc = "raised",
                                      ![i].result = LoadError]
            /\ UNCHANGED model
       ELSE /\ calls' = [calls EXCEPT ![i].pc = "load_encoder",
                                      ![i].model_data = artifact,
                                      ![i].loaded = TRUE]
            /\ model' = artifact.model
    /\ UNCHANGED <<label_encoder, artifact>>
    /\ UNCHANGED <<scoreVars, requestVars, explainerVars, similarityVars,
                   logVars>>

\* self.label_encoder = model_data['label_encoder']; return True
PredictLoadEncoder(i) ==
    /\ calls[i].pc = "load_encoder"
    /\ label_encoder' = calls[i].model_data.label_encoder
    /\ calls' = [calls EXCEPT ![i].pc = "infer"]
    /\ UNCHANGED <<model, artifact>>
    /\ UNCHANGED <<scoreVars, requestVars, explainerVars, similarityVars,
                   logVars>>

\* self.model.predict, self.label_encoder.inverse_transform and the result
PredictInfer(i) ==
    /\ calls[i].pc = "infer"
    /\ \E level \in StressLevels :
          calls' =
             IF label_encoder = FreshEncoder
             THEN [calls EXCEPT ![i].pc = "raised", ![i].result = NotFitted]
             ELSE [calls EXCEPT ![i].pc = "returned",
                                ![i].result = [stress_level |-> level]]
    /\ UNCHANGED <<model, label_encoder, artifact>>
    /\ UNCHANGED <<scoreVars, requestVars, explainerVars, similarityVars,
                   logVars>>

\* train(): the label encoder is fitted in place, a new classifier is
\* fitted and both are dumped at model_path
PredictorTrain ==
    /\ pc = "predictor"
    /\ NoCallInProgress
    /\ LastRun < MaxTrain
    /\ label_encoder' = Dumped(LastRun + 1).label_encoder
    /\ model' = Dumped(LastRun + 1).model
    /\ artifact' = Dumped(LastRun + 1)
    /\ UNCHANGED calls
    /\ UNCHANGED <<scoreVars, requestVars, explainerVars, similarityVars,
                   logVars>>

PredictorNext ==
    \/ PredictEnter
    \/ \E i \in 1..Len(calls) : PredictCheck(i)
    \/ \E i \in 1..Len(calls) : PredictLoad(i)
    \/ \E i \in 1..Len(calls) : PredictLoadEncoder(i)
    \/ \E i \in 1..Len(calls) : PredictInfer(i)
    \/ PredictorTrain

PredictorSpec == PredictorInit /\ [][PredictorNext]_vars

(***************************************************************************)
(* predict called from several threads on one StressLevelPredictor, as the *)
(* threaded server does with the module-level stress_predictor of app.py.  *)
(* A thread can be switched out between any two statements, so the steps   *)
(* of the calls interleave freely.                                         *)
(***************************************************************************)
\* the shared predictor: nothing loaded yet, or the artifact loaded
ConcurrentInit ==
    /\ pc = "predictor"
    /\ artifact \in {None, Unreadable, Dumped(1)}
    /\ \/ model = None /\ label_encoder = FreshEncoder
       \/ /\ artifact = Dumped(1)
          /\ model = artifact.model
          /\ label_encoder = artifact.label_encoder
    /\ calls = <<>>
    /\ ScoreIdle
    /\ RequestIdle
    /\ ExplainerIdle
    /\ SimilarityIdle
    /\ call_log = <<>>

\* predict(features) is called by a thread, whatever the others are doing
PredictEnterConcurrently ==
    /\ pc = "predictor"
    /\ Len(calls) < MaxPredicts
    /\ calls' = Append(calls, [pc |-> "check", result |-> None,
                               model_data |-> None, loaded |-> FALSE])
    /\ UNCHANGED <<model, label_encoder, artifact>>
    /\ UNCHANGED <<scoreVars, requestVars, explainerVars, similarityVars,
                   logVars>>

ConcurrentNext ==
    \/ PredictEnterConcurrently
    \/ \E i \in 1..Len(calls) : PredictCheck(i)
    \/ \E i \in 1..Len(calls) : PredictLoad(i)
    \/ \E i \in 1..Len(calls) : PredictLoadEncoder(i)
    \/ \E i \in 1..Len(calls) : PredictInfer(i)

ConcurrentSpec == ConcurrentInit /\ [][ConcurrentNext]_vars

(***************************************************************************)
(* The application: module start-up of app.py, then one analyze request.   *)
(* The engines and the explainer are constructed; start-up tries to load   *)
(* the model and trains one when the load raises.                          *)
(***************************************************************************)
\* lines 14-18 of app.py have run: predictor without a model, explainer with
\* or without a client, dataset file loaded or not; a request body waits
AppInit ==
    /\ pc = "startup"
    /\ model = None
    /\ label_encoder = FreshEncoder
    /\ artifact \in {None, Unreadable, Dumped(1)}
    /\ calls = <<>>
    /\ data \in RequestBodies
    /\ response = None
    /\ use_openai \in BOOLEAN
    /\ client = (IF use_openai THEN [client |-> "OpenAI"] ELSE None)
    /\ explanation = None
    /\ dataset \in {None, CallDataset}
    /\ query = None
    /\ top_n = 0
    /\ similar = None
    /\ ScoreIdle
    /\ call_log = <<>>

\* try: stress_predictor.load_model() / except: stress_predictor.train().
\* load_model returns False without raising when the file is missing
AppStartup ==
    /\ pc = "startup"
    /\ IF artifact = Unreadable
       THEN /\ model' = Dumped(LastRun + 1).model
            /\ label_encoder' = Dumped(LastRun + 1).label_encoder
            /\ artifact' = Dumped(LastRun + 1)
       ELSE IF artifact = None
       THEN UNCHANGED <<model, label_encoder, artifact>>
       ELSE /\ model' = artifact.model
            /\ label_encoder' = artifact.label_encoder
            /\ UNCHANGED artifact
    /\ pc' = "parse"
    /\ UNCHANGED calls
    /\ UNCHANGED <<metrics, stress_result, burnout_result, phishing_result,
                   weights, risk_factors>>
    /\ UNCHANGED <<requestVars, explainerVars, similarityVars, logVars>>

\* 1. stress_predictor.predict with no model: load_model is tried; without
\* a file predict raises, and the exception ends the request in the except
\* clause of analyze
AnalyzePredictUnloaded ==
    /\ pc = "predict"
    /\ model = None
    /\ IF artifact = None \/ artifact = Unreadable
       THEN /\ response' =
                  ErrorResponse(IF artifact = None
                                THEN ModelUnavailable.raised
                                ELSE LoadError.raised)
            /\ pc' = "done"
            /\ UNCHANGED <<stress_result, model, label_encoder>>
       ELSE /\ model' = artifact.model
            /\ label_encoder' = artifact.label_encoder
            /\ \E level \in StressLevels :
                  /\ FloatExact(metrics, level)
                  /\ stress_result' = [stress_level |-> level]
            /\ pc' = "burnout"
            /\ UNCHANGED response
    /\ UNCHANGED <<artifact, calls, data>>
    /\ UNCHANGED <<metrics, burnout_result, phishing_result, weights,
                   risk_factors>>
    /\ UNCHANGED <<explainerVars, similarityVars, logVars>>

\* GET /api/health
health ==
    [status |-> "healthy", model_loaded |-> model # None,
     engines_ready |-> TRUE]

AppNext == AppStartup \/ AnalyzePredictUnloaded \/ RequestNext

AppSpec == AppInit /\ [][AppNext]_vars

(***************************************************************************)
(* Properties                                                              *)
(***************************************************************************)
\* clamp of the design text: floor at 0, then bound at 100
Clamp(x) == IF x < 0 THEN 0 ELSE IF x > Fx(100) THEN Fx(100) ELSE x

InScore(x) == x >= 0 /\ x <= Fx(100)

BurnoutDone == burnout_result # None

PhishingDone == phishing_result # None

\* C1: every sub-score and composite of both engines lies in [0,100] and
\* attack_success_probability lies in [0,95], for every input of the grid,
\* the out-of-range ones included, and every stress category.
C1_ScoresInRange ==
    /\ BurnoutDone =>
          /\ InScore(burnout_result.total_score)
          /\ InScore(burnout_result.components.emotional_exhaustion)
          /\ InScore(burnout_result.components.depersonalization)
          /\ InScore(burnout_result.components.personal_accomplishment)
          /\ InScore(burnout_result.components.work_overload)
    /\ PhishingDone =>
          /\ InScore(phishing_result.vulnerability_index)
          /\ InScore(phishing_result.risk_factors.cognitive_load)
          /\ InScore(phishing_result.risk_factors.awareness_vulnerability)
          /\ phishing_result.attack_success_probability >= 0
          /\ phishing_result.attack_success_probability <= Fx(95)

\* both engines have scored a record with negative hours and support above
\* 10, and the final clamp of depersonalization has absorbed a negative sum
C1_Witness ==
    /\ PhishingDone
    /\ metrics.work_hours_per_week < 0
    /\ metrics.team_support > 10
    /\ burnout_result.components.depersonalization = 0

\* work_overload of the design text: all three factors clamped to [0,100]
WorkOverloadReference(m) ==
    Clamp(MulDec(Clamp((m.work_hours_per_week - Fx(40)) * 3), 5, 10)
          + MulDec(Clamp(MulDec(Fx(m.emails_per_day - 50), 5, 10)), 25, 100)
          + MulDec(Clamp(Fx((m.meetings_per_week - 10) * 4)), 25, 100))

\* C2: calculate_work_overload equals the reference formula in which the
\* email and meeting factors are floored at 0 like every other clamp.
C2_WorkOverloadFloorsFactors ==
    BurnoutDone =>
        /\ calculate_work_overload(metrics.work_hours_per_week,
               metrics.emails_per_day, metrics.meetings_per_week)
           = WorkOverloadReference(metrics)
        /\ burnout_result.components.work_overload
           = Round2(WorkOverloadReference(metrics))

EmotionalExhaustionReference(m, level) ==
    LET S == CASE level = "Low" -> 25 [] level = "Medium" -> 50
               [] level = "High" -> 75 [] level = "Critical" -> 100
    IN  Clamp(MulDec(Clamp((m.work_hours_per_week - Fx(40)) * 5), 4, 10)
              + MulDec(Clamp((Half(15) - m.sleep_hours_per_day) * 15), 3, 10)
              + MulDec(Fx(S), 3, 10))

DepersonalizationReference(m) ==
    Clamp(Fx((10 - m.team_support) * 4) + Fx((10 - m.work_life_balance) * 4)
          + MulDec(Clamp(Fx((m.meetings_per_week - 10) * 3)), 2, 10))

PersonalAccomplishmentReference(m) ==
    Clamp(MulDec(Fx(m.task_complexity), 15, 10)
          + Fx(m.deadline_pressure * 2)
          + MulDec(Fx(m.task_complexity * m.deadline_pressure), 15, 100))

\* C3: emotional_exhaustion, depersonalization and personal_accomplishment
\* equal their reference formulas, with the clamps where the design text
\* puts them.
C3_SubScoresMatchReference ==
    BurnoutDone =>
        LET level == stress_result.stress_level
        IN  /\ calculate_emotional_exhaustion(metrics.work_hours_per_week,
                   metrics.sleep_hours_per_day, BurnoutStressMap(level))
               = EmotionalExhaustionReference(metrics, level)
            /\ calculate_depersonalization(metrics.team_support,
                   metrics.work_life_balance, metrics.meetings_per_week)
               = DepersonalizationReference(metrics)
            /\ calculate_personal_accomplishment(metrics.task_complexity,
                   metrics.deadline_pressure)
               = PersonalAccomplishmentReference(metrics)
            /\ burnout_result.components.emotional_exhaustion
               = Round2(EmotionalExhaustionReference(metrics, level))
            /\ burnout_result.components.depersonalization
               = Round2(DepersonalizationReference(metrics))
            /\ burnout_result.components.personal_accomplishment
               = Round2(PersonalAccomplishmentReference(metrics))

\* a scored record on which the clamp placement matters: the sleep factor is
\* floored at 0, the support term is negative and enters the sum unclamped,
\* and both sub-scores come out positive
C3_Witness ==
    /\ BurnoutDone
    /\ metrics.sleep_hours_per_day > Half(15)
    /\ metrics.team_support > 10
    /\ burnout_result.components.emotional_exhaustion > 0
    /\ burnout_result.components.depersonalization > 0

IsFixture ==
    /\ BurnoutDone
    /\ metrics = FixtureRecord
    /\ stress_result.stress_level = "High"

\* C4 as written: the regression fixture yields emotional_exhaustion = 89.25.
C4_FixtureIs8925 ==
    IsFixture => burnout_result.components.emotional_exhaustion = 8925000

\* C4 (amended): the regression fixture with stress category High yields
\* emotional_exhaustion = 59.25 (work factor 75, not 150).
C4_FixtureIs5925 ==
    IsFixture => burnout_result.components.emotional_exhaustion = 5925000

C4_Witness == IsFixture

\* C5: with every other field and the stress category fixed, more weekly
\* hours never give a smaller work_overload or emotional_exhaustion; the
\* scored record is compared with every other hours value of the grid.
C5_MonotoneInHours ==
    pc = "phishing" =>
        LET s == BurnoutStressMap(stress_result.stress_level)
            own == metrics.work_hours_per_week
            wo(x) == calculate_work_overload(x, metrics.emails_per_day,
                         metrics.meetings_per_week)
            ee(x) == calculate_emotional_exhaustion(x,
                         metrics.sleep_hours_per_day, s)
            woOwn == wo(own)
            eeOwn == ee(own)
        IN  \A h \in HoursValues :
                IF h <= own
                THEN wo(h) <= woOwn /\ ee(h) <= eeOwn
                ELSE wo(h) >= woOwn /\ ee(h) >= eeOwn

\* a scored record with emails below 50 and meetings below 10 whose hours
\* still produce a positive work_overload
C5_Witness ==
    /\ BurnoutDone
    /\ metrics.emails_per_day < 50
    /\ metrics.meetings_per_week < 10
    /\ metrics.work_hours_per_week > Fx(40)
    /\ burnout_result.components.work_overload > 0

\* the weighted sum, at the documented weights, of the four sub-scores as
\* they appear in a result
WeightedSumOfReturned(r) ==
    MulDec(r.components.emotional_exhaustion, 35, 100)
    + MulDec(r.components.depersonalization, 25, 100)
    + MulDec(r.components.personal_accomplishment, 20, 100)
    + MulDec(r.components.work_overload, 20, 100)

WeightsAsDocumented(w) ==
    /\ w.emotional_exhaustion = 35
    /\ w.depersonalization = 25
    /\ w.personal_accomplishment = 20
    /\ w.work_overload = 20
    /\ w.emotional_exhaustion + w.depersonalization
       + w.personal_accomplishment + w.work_overload = 100

\* C6 as written: total_score equals the weighted sum of the four sub-scores
\* returned in the same result, and the weights are 0.35/0.25/0.20/0.20.
C6_TotalIsSumOfReturned ==
    BurnoutDone =>
        /\ burnout_result.total_score = WeightedSumOfReturned(burnout_result)
        /\ WeightsAsDocumented(burnout_result.weights)

\* the weighted sum of the sub-scores of the scored record before any of them
\* is rounded: the three reference formulas and the work overload as computed
WeightedSumBeforeRounding ==
    MulDec(EmotionalExhaustionReference(metrics, stress_result.stress_level),
           35, 100)
    + MulDec(DepersonalizationReference(metrics), 25, 100)
    + MulDec(PersonalAccomplishmentReference(metrics), 20, 100)
    + MulDec(calculate_work_overload(metrics.work_hours_per_week,
                 metrics.emails_per_day, metrics.meetings_per_week), 20, 100)

\* C6 (amended): total_score is the weighted sum of the sub-scores taken
\* before they are rounded, itself rounded to two decimals; it is within
\* 0.01 of the weighted sum of the returned sub-scores, and the weights are
\* 0.35/0.25/0.20/0.20, summing to 1.
C6_TotalWithinRounding ==
    BurnoutDone =>
        /\ Abs(burnout_result.total_score
               - WeightedSumOfReturned(burnout_result)) <= Scale \div 100
        /\ burnout_result.total_score % (Scale \div 100) = 0
        /\ Abs(burnout_result.total_score - WeightedSumBeforeRounding)
           <= Scale \div 200
        /\ WeightsAsDocumented(burnout_result.weights)

\* a result whose total_score is not the weighted sum of its own sub-scores
C6_Witness ==
    /\ BurnoutDone
    /\ burnout_result.total_score # WeightedSumOfReturned(burnout_result)
    /\ burnout_result.total_score > Fx(50)

LevelByThreshold(total_score) ==
    CASE total_score < Fx(30) -> <<"Low Risk", "green">>
      [] total_score >= Fx(30) /\ total_score < Fx(50) ->
            <<"Moderate Risk", "yellow">>
      [] total_score >= Fx(50) /\ total_score < Fx(70) ->
            <<"High Risk", "orange">>
      [] total_score >= Fx(70) -> <<"Critical Risk", "red">>

\* C7: level and color of a result follow from the total_score of the same
\* result by the thresholds 30 / 50 / 70.
C7_LevelFollowsReturnedTotal ==
    BurnoutDone =>
        <<burnout_result.level, burnout_result.color>>
        = LevelByThreshold(burnout_result.total_score)

CognitiveLoadReference(m) ==
    Clamp(MulDec(Clamp(MulDec(Fx(m.emails_per_day - 30), 7, 10)), 4, 10)
          + MulDec(Clamp(Fx((m.meetings_per_week - 5) * 3)), 3, 10)
          + Fx(m.task_complexity * 3))

AwarenessReference(m) ==
    Clamp(MulDec(Clamp((m.work_hours_per_week - Fx(40)) * 2), 35, 100)
          + MulDec(Clamp((Half(15) - m.sleep_hours_per_day) * 12), 35, 100)
          + Fx((10 - m.work_life_balance) * 3))

VulnerabilityReference(m, level, burnout_total) ==
    LET S == CASE level = "Low" -> 20 [] level = "Medium" -> 45
               [] level = "High" -> 70 [] level = "Critical" -> 95
    IN  MulDec(Fx(S), 25, 100) + MulDec(burnout_total, 30, 100)
        + MulDec(CognitiveLoadReference(m), 25, 100)
        + MulDec(AwarenessReference(m), 20, 100)

\* C8 as written: vulnerability_index equals 0.25*S + 0.30*burnout_total
\* + 0.25*cognitive_load + 0.20*awareness_vulnerability.
C8_IndexIsWeightedSum ==
    PhishingDone =>
        phishing_result.vulnerability_index
        = VulnerabilityReference(metrics, stress_result.stress_level,
                                 burnout_result.total_score)

\* C8 (amended): vulnerability_index is that weighted sum rounded to two
\* decimals, so it is a whole number of hundredths within 0.005 of the sum;
\* cognitive_load and awareness_vulnerability are the reference formulas.
C8_IndexWithinRounding ==
    PhishingDone =>
        /\ Abs(phishing_result.vulnerability_index
               - VulnerabilityReference(metrics, stress_result.stress_level,
                                        burnout_result.total_score))
           <= Scale \div 200
        /\ phishing_result.vulnerability_index % (Scale \div 100) = 0
        /\ phishing_result.risk_factors.cognitive_load
           = Round2(CognitiveLoadReference(metrics))
        /\ phishing_result.risk_factors.awareness_vulnerability
           = Round2(AwarenessReference(metrics))

\* an index that differs from the weighted sum, computed from a record whose
\* email factor is floored and whose burnout total is positive
C8_Witness ==
    /\ PhishingDone
    /\ phishing_result.vulnerability_index
       # VulnerabilityReference(metrics, stress_result.stress_level,
                                burnout_result.total_score)
    /\ metrics.emails_per_day < 30
    /\ burnout_result.total_score > 0

RiskByThreshold(index) ==
    CASE index < Fx(30) ->
            <<"Low Vulnerability", "green",
              "Maintain current security practices">>
      [] index >= Fx(30) /\ index < Fx(50) ->
            <<"Moderate Vulnerability", "yellow",
              "Schedule security awareness refresher">>
      [] index >= Fx(50) /\ index < Fx(70) ->
            <<"High Vulnerability", "orange",
              "Immediate security training required">>
      [] index >= Fx(70) ->
            <<"Critical Vulnerability", "red",
              "Urgent intervention needed - high phishing risk">>

\* C9: risk_level, color and recommendation of a result follow from the
\* vulnerability_index of the same result by the thresholds 30 / 50 / 70.
C9_RiskFollowsReturnedIndex ==
    PhishingDone =>
        <<phishing_result.risk_level, phishing_result.color,
          phishing_result.recommendation>>
        = RiskByThreshold(phishing_result.vulnerability_index)

\* min(95, 15 * (1 + index/100 * 3)) = min(95, 15 + 0.45 * index)
AttackReference(index) == min2(Fx(95), Fx(15) + MulDec(index, 45, 100))

\* C10 as written: attack_success_probability equals
\* min(95, 15*(1 + vulnerability_index/100*3)) of the returned index.
C10_AttackIsFormulaOfReturned ==
    PhishingDone =>
        phishing_result.attack_success_probability
        = AttackReference(phishing_result.vulnerability_index)

\* C10 (amended): attack_success_probability is min(95, 15*(1 + v/100*3))
\* rounded to two decimals, v being the index before it is rounded, so it
\* is within 0.01 of the formula applied to the returned index; the formula
\* gives 15 at index 0 and 60 (4 times the baseline) at index 100, and the
\* probability never decreases as the index grows.
C10_AttackWithinRounding ==
    /\ AttackSuccessPercent(0) = Fx(15)
    /\ AttackSuccessPercent(Fx(100)) = Fx(60)
    /\ PhishingDone =>
          /\ Abs(phishing_result.attack_success_probability
                 - AttackReference(phishing_result.vulnerability_index))
             < Scale \div 100
          /\ phishing_result.attack_success_probability % (Scale \div 100) = 0
          /\ Abs(phishing_result.attack_success_probability
                 - AttackReference(VulnerabilityReference(metrics,
                       stress_result.stress_level, burnout_result.total_score)))
             <= Scale \div 200
          /\ \A k \in 0..100 :
                IF Fx(k) <= phishing_result.vulnerability_index
                THEN Round2(AttackSuccessPercent(Fx(k)))
                     <= phishing_result.attack_success_probability
                ELSE Round2(AttackSuccessPercent(Fx(k)))
                     >= phishing_result.attack_success_probability

\* a result whose probability is not the formula of its own index
C10_Witness ==
    /\ PhishingDone
    /\ phishing_result.attack_success_probability
       # AttackReference(phishing_result.vulnerability_index)
    /\ phishing_result.vulnerability_index > Fx(70)

SearchReturned == pc = "done" /\ similar # None /\ similar # IndexError

\* C11: every similarity_score find_similar_cases computes lies in [0,1],
\* whatever numeric values the metrics record and the historical case hold,
\* negative and fractional ones included.
C11_SimilarityInUnitInterval ==
    SearchReturned =>
        \A j \in 1..Len(similar.cases) :
            /\ similar.cases[j].similarity_score >= 0
            /\ similar.cases[j].similarity_score <= SimOne

\* the record and the row hold the same value in each of the six fields
Identical(q, row) ==
    /\ ComparedFields \subseteq DOMAIN q
    /\ ComparedFields \subseteq DOMAIN row
    /\ \A f \in ComparedFields : q[f] = row[f]

\* C12: a historical case whose six compared fields equal those of the
\* metrics record has similarity exactly 1.0, whatever the values (0, 1/2 and
\* negative ones included); being the largest possible score, it is the
\* similarity_score of the first result whenever at least one is asked for.
C12_IdenticalCaseScoresOne ==
    (SearchReturned /\ dataset # None) =>
        \A i \in 1..Len(dataset.rows) :
            Identical(query, dataset.rows[i]) =>
                /\ AvgSimilarity(query, dataset.rows[i]) = SimOne
                /\ top_n >= 1 =>
                      similar.cases[1].similarity_score = SimOne

\* a search over a corpus that holds the record itself, with a field between
\* 0 and 1, has returned it
C12_Witness ==
    /\ SearchReturned
    /\ dataset # None
    /\ top_n >= 1
    /\ \E i \in 1..Len(dataset.rows) :
          /\ Identical(query, dataset.rows[i])
          /\ query["emails_per_day"] = Half(1)

\* the compared fields present on both sides
Comparable(q, row) == ComparedFields \cap DOMAIN q \cap DOMAIN row

\* 1 - |a-b| / max(a,b,1), in 1/SimOne
TermReference(a, b) ==
    LET M == CHOOSE x \in {a, b, Fx(1)} : \A y \in {a, b, Fx(1)} : x >= y
    IN  (SimOne * (M - Abs(a - b))) \div M

RECURSIVE SumOverFields(_, _, _)
SumOverFields(q, row, fields) ==
    IF fields = {} THEN 0
    ELSE LET f == CHOOSE g \in fields : TRUE
         IN  TermReference(q[f], row[f])
             + SumOverFields(q, row, fields \ {f})

\* the average of the terms over the comparable fields, 0 when there is none
SimilarityReference(q, row) ==
    LET fields == Comparable(q, row)
    IN  IF fields = {} THEN 0
        ELSE SumOverFields(q, row, fields) \div Cardinality(fields)

\* C13: the similarity of the record and each case is the average of
\* 1 - |a-b| / max(a,b,1) over the compared fields present on both sides;
\* every returned similarity_score is that average for a case of the corpus;
\* with no comparable field the call returns and the similarity is 0.
C13_SimilarityIsAverage ==
    (pc = "done" /\ dataset # None) =>
        /\ \A i \in 1..Len(dataset.rows) :
              AvgSimilarity(query, dataset.rows[i])
              = SimilarityReference(query, dataset.rows[i])
        /\ SearchReturned =>
              \A j \in 1..Len(similar.cases) :
                 \E i \in 1..Len(dataset.rows) :
                    similar.cases[j].similarity_score
                    = SimilarityReference(query, dataset.rows[i])
        /\ (dataset.index = RangeIndex(Len(dataset.rows))
            /\ ComparedFields \cap DOMAIN query \cap dataset.columns = {}) =>
              /\ SearchReturned
              /\ \A j \in 1..Len(similar.cases) :
                    similar.cases[j].similarity_score = 0

\* a returned case compared on some but not all of the six fields, neither
\* identical to the record nor at similarity 0
C13_Witness ==
    /\ SearchReturned
    /\ dataset # None
    /\ \E j \in 1..Len(similar.cases) :
          /\ Comparable(query, similar.cases[j]) # {}
          /\ Comparable(query, similar.cases[j]) # ComparedFields
          /\ similar.cases[j].similarity_score > 0
          /\ similar.cases[j].similarity_score < SimOne

CorpusSize == IF dataset = None THEN 0 ELSE Len(dataset.rows)

\* the row of the corpus a returned case is: rows are told apart by their
\* employee_id, the position of the row in the corpus
RowOf(case) == dataset.rows[case["employee_id"]]

\* C14: for n >= 0 the call returns exactly min(n, corpus size) results, none
\* (and no error) for an empty or absent corpus; each result is a corpus case
\* carrying the similarity of that case; no case left out is more similar
\* than a returned one; the results are ordered by non-increasing similarity,
\* equal similarities in corpus order.
C14_TopCasesOfCorpus ==
    pc = "done" =>
        /\ SearchReturned
        /\ Len(similar.cases) = min2(top_n, CorpusSize)
        /\ \A j \in 1..Len(similar.cases) :
              LET case == similar.cases[j]
              IN  /\ case["employee_id"] \in 1..CorpusSize
                  /\ case["similarity_score"]
                     = SimilarityReference(query, RowOf(case))
                  /\ \A f \in DOMAIN RowOf(case) : case[f] = RowOf(case)[f]
        /\ \A j, k \in 1..Len(similar.cases) :
              j < k =>
                 /\ similar.cases[j]["similarity_score"]
                    >= similar.cases[k]["similarity_score"]
                 /\ similar.cases[j]["employee_id"]
                    # similar.cases[k]["employee_id"]
                 /\ similar.cases[j]["similarity_score"]
                    = similar.cases[k]["similarity_score"] =>
                       similar.cases[j]["employee_id"]
                       < similar.cases[k]["employee_id"]
        /\ \A i \in 1..CorpusSize :
              (\A j \in 1..Len(similar.cases) :
                  similar.cases[j]["employee_id"] # i) =>
                 \A j \in 1..Len(similar.cases) :
                    SimilarityReference(query, dataset.rows[i])
                    <= similar.cases[j]["similarity_score"]

\* C14 for the datasets whose index labels are the row positions
C14_TopCasesUnderRangeIndex ==
    (dataset # None => dataset.index = RangeIndex(Len(dataset.rows)))
        => C14_TopCasesOfCorpus

\* C15: two calls of calculate_burnout_score, calculate_vulnerability_index
\* or find_similar_cases with the same arguments (upstream results included)
\* return the same result, whatever calls are made in between, and no call
\* changes the weights, the risk factors or the dataset.
C15_SameCallSameResult ==
    pc = "calls" =>
        /\ \A i, j \in 1..Len(call_log) :
              call_log[i].call = call_log[j].call =>
                 call_log[i].result = call_log[j].result
        /\ weights = BurnoutWeights
        /\ risk_factors = RiskFactors
        /\ dataset = CallDataset

\* a burnout call repeated after a different scoring call
C15_Witness ==
    /\ pc = "calls"
    /\ \E i, j \in 1..Len(call_log) :
          /\ i + 1 < j
          /\ call_log[i].call = call_log[j].call
          /\ call_log[i].call.op = "calculate_burnout_score"
          /\ call_log[i + 1].call # call_log[i].call

\* the body lacks one of the 8 metric fields
LacksField(body) == MetricFields \ DOMAIN body # {}

\* the body holds a text, a null or a list for a metric field
HoldsNonNumeric(body) ==
    \E f \in DOMAIN body : body[f].kind \in {"text", "null", "list"}

\* the request was answered with an error and nothing was assessed
Rejected ==
    /\ response # None
    /\ response.success = FALSE
    /\ response.status = 400
    /\ metrics = None
    /\ stress_result = None
    /\ burnout_result = None
    /\ phishing_result = None

EnginesAsConstructed ==
    /\ weights = BurnoutWeights
    /\ risk_factors = RiskFactors
    /\ model = Dumped(1).model
    /\ label_encoder = Dumped(1).label_encoder

\* C16 as written: a request that lacks a metric field or holds a non-numeric
\* value for one is rejected, nothing is assessed for it and the state
\* shared with other requests is untouched.
C16_InvalidRequestRejected ==
    (pc = "done" /\ (LacksField(data) \/ HoldsNonNumeric(data))) =>
        Rejected /\ EnginesAsConstructed

\* a value float() (hours, sleep) or int() (the six other fields) refuses
CannotConvert(body) ==
    \E f \in DOMAIN body :
        \/ body[f].kind \in {"text", "null", "list"}
        \/ /\ f \notin FloatFields
           /\ body[f].kind = "numeric string"
           /\ body[f].point

DefaultMetric(field) ==
    IF field \in FloatFields THEN Fx(DefaultOf(field)) ELSE DefaultOf(field)

\* C16 (amended): a request holding a value that cannot be converted is
\* rejected with an error response: at no time is anything assessed for it,
\* and the engines stay as constructed.  A request that only lacks fields is
\* not rejected: each absent field takes its default (40, 7, 15, 75, 5, 5,
\* 5, 5) and the request is assessed and answered.
C16_UnconvertibleRejectedAbsentDefaulted ==
    /\ pc # "parse" => EnginesAsConstructed
    /\ (pc # "parse" /\ CannotConvert(data)) => Rejected
    /\ (pc # "parse" /\ ~CannotConvert(data)) =>
          /\ metrics # None
          /\ \A f \in MetricFields \ DOMAIN data :
                metrics[f] = DefaultMetric(f)
    /\ (pc = "done" /\ ~CannotConvert(data)) =>
          /\ response.success
          /\ response.status = 200
          /\ response.inputs = metrics
          /\ response.burnout = burnout_result
          /\ response.phishing = phishing_result
          /\ burnout_result # None
          /\ phishing_result # None

\* a request without its sleep field has been assessed at the default 7
C16_Witness ==
    /\ pc = "done"
    /\ "sleep_hours_per_day" \notin DOMAIN data
    /\ response.success
    /\ metrics.sleep_hours_per_day = Fx(7)
    /\ burnout_result # None

\* a request with a text for a field has been rejected
C16_RejectionReached ==
    /\ pc = "done"
    /\ \E f \in DOMAIN data : data[f].kind = "text"
    /\ Rejected

(***************************************************************************)
(* The explainer                                                           *)
(***************************************************************************)
TemplateForSameInputs ==
    generate_explanation_template(dataset,
        Results(stress_result, burnout_result, phishing_result, metrics))

\* C17: with an API key, whatever fails on the generative path (package
\* missing, client construction, the completion call, a response without
\* choices or with missing or null content), generate_explanation returns
\* the text of the template renderer for the same inputs: no exception
\* leaves the explainer and what is returned is the generated text or the
\* template text, never anything else.
C17_FailuresFallBackToTemplate ==
    /\ pc # "raised"
    /\ (pc = "respond" /\ client # None) =>
          \/ explanation = GeneratedText
          \/ explanation = TemplateForSameInputs

\* the failures that are caught: the call raising, no choices, no content
\* attribute (and the package missing, which turns the path off)
C17_CaughtFailuresFallBack ==
    (pc = "respond" /\ ~Raises(explanation)) =>
        explanation \in {GeneratedText, PyNone, TemplateForSameInputs}

C17_NullContentReached == pc = "respond" /\ explanation = PyNone

C17_FallbackReached ==
    pc = "respond" /\ client # None /\ explanation = TemplateForSameInputs

TemplateReturned == pc = "respond" /\ "opening" \in DOMAIN explanation

\* C19: for every burnout total_score and stress category the template
\* narrative opens with exactly one of three tiers: "requires immediate
\* attention" iff total_score >= 70 or the category is Critical; otherwise
\* "elevated risk ... addressed proactively" iff total_score >= 50 or the
\* category is High; otherwise "relatively healthy".  A total_score of 68
\* with category High opens with the second tier.
C19_OpeningTiers ==
    TemplateReturned =>
        LET total_score == burnout_result.total_score
            category == stress_result.stress_level
            first == total_score >= Fx(70) \/ category = "Critical"
            second == ~first /\ (total_score >= Fx(50) \/ category = "High")
            immediate == "This situation requires immediate attention."
            elevated ==
                "indicating elevated risk that should be addressed proactively."
            healthy == "showing relatively healthy work patterns."
        IN  /\ explanation.opening \in {immediate, elevated, healthy}
            /\ explanation.opening = immediate <=> first
            /\ explanation.opening = elevated <=> second
            /\ explanation.opening = healthy <=> (~first /\ ~second)
            /\ (total_score = Fx(68) /\ category = "High") =>
                  explanation.opening = elevated

C19_Witness ==
    /\ TemplateReturned
    /\ burnout_result.total_score = Fx(68)
    /\ stress_result.stress_level = "High"
    /\ explanation.opening =
          "indicating elevated risk that should be addressed proactively."

C19_CriticalBelow70Reached ==
    /\ TemplateReturned
    /\ burnout_result.total_score < Fx(50)
    /\ stress_result.stress_level = "Critical"
    /\ explanation.opening = "This situation requires immediate attention."

NarrativeOfAssessment ==
    /\ pc \in {"respond", "done"}
    /\ "security_text" \in DOMAIN explanation
    /\ explanation.phishing_risk = phishing_result.risk_level
    /\ explanation.vulnerability_index = phishing_result.vulnerability_index

\* C20: the security clause of the narrative agrees with the phishing
\* assessment it describes: next to a risk_level of Moderate Vulnerability
\* the text never says "relatively low", and next to High Vulnerability it
\* never says "moderate".
C20_SecurityClauseMatchesRiskLevel ==
    NarrativeOfAssessment =>
        /\ explanation.phishing_risk = "Moderate Vulnerability" =>
              explanation.security_text #
                 "This relatively low vulnerability indicates good security awareness"
        /\ explanation.phishing_risk = "High Vulnerability" =>
              explanation.security_text #
                 "This moderate vulnerability suggests scheduling a security awareness refresher"

\* at the two ends the clause and the label do agree
C20_ExtremesAgree ==
    NarrativeOfAssessment =>
        /\ explanation.phishing_risk = "Low Vulnerability" =>
              explanation.security_text =
                 "This relatively low vulnerability indicates good security awareness"
        /\ explanation.phishing_risk = "Critical Vulnerability" =>
              explanation.security_text =
                 "This elevated vulnerability requires urgent security awareness training"

(***************************************************************************)
(* The predictor                                                           *)
(***************************************************************************)
Loadable == artifact # None /\ artifact # Unreadable

Loading(call) == call.pc \in {"load", "load_encoder"}

\* a step of call i that starts with no model and nothing to load
FailsUnavailable(i) ==
    (calls[i].pc = "load" /\ ~Loadable /\ calls'[i] # calls[i]) =>
        /\ calls'[i].pc = "raised"
        /\ calls'[i].result = ModelUnavailable
        /\ model' = None

\* a step of call i that starts with a model loaded
LeavesModelAlone(i) ==
    (model # None /\ ~Loading(calls[i]) /\ calls'[i] # calls[i]) =>
        /\ ~Loading(calls'[i])
        /\ model' = model
        /\ label_encoder' = label_encoder

LoadingCalls == {i \in 1..Len(calls) : calls[i].loaded}

\* C18: predict called with no model loaded and no artifact that can be
\* loaded from the model path fails with the model-unavailable error,
\* returns no assessment and leaves the model unset; an artifact that
\* exists is loaded by the first call only, and once a model is loaded no
\* later predict call loads again or changes the model or label encoder.
C18_UnavailableFailsLoadHappensOnce ==
    /\ [](Cardinality(LoadingCalls) <= 1 /\ LoadingCalls \subseteq {1})
    /\ [][\A i \in 1..Len(calls) :
              FailsUnavailable(i) /\ LeavesModelAlone(i)]_vars

\* the two cases told apart: a missing file gives the model-unavailable
\* error, an unreadable one the error of the load, and in both cases no
\* assessment is returned and the model stays unset
FailsUnavailableOrLoadError(i) ==
    (calls[i].pc = "load" /\ ~Loadable /\ calls'[i] # calls[i]) =>
        /\ calls'[i].pc = "raised"
        /\ calls'[i].result =
              IF artifact = None THEN ModelUnavailable ELSE LoadError
        /\ model' = None

C18_MissingFailsUnavailableUnreadableFailsInLoad ==
    /\ [](Cardinality(LoadingCalls) <= 1 /\ LoadingCalls \subseteq {1})
    /\ [][\A i \in 1..Len(calls) :
              FailsUnavailableOrLoadError(i) /\ LeavesModelAlone(i)]_vars

C18_UnreadableReached ==
    /\ artifact = Unreadable
    /\ calls # <<>>
    /\ calls[1].result = LoadError
    /\ model = None

C18_MissingReached ==
    /\ artifact = None
    /\ calls # <<>>
    /\ calls[1].result = ModelUnavailable
    /\ model = None

C18_LoadedOnceReached ==
    /\ Len(calls) = 2
    /\ calls[1].loaded /\ calls[1].pc = "returned"
    /\ ~calls[2].loaded /\ calls[2].pc = "returned"

(***************************************************************************)
(* The request as a whole                                                  *)
(***************************************************************************)
RequestFailed == response # None /\ ~response.success

\* C21: in every analyze request the stages run in the order stress
\* classification, burnout scoring, phishing scoring, case similarity,
\* narrative: a stage has a result only when every earlier stage has one,
\* burnout scoring is computed from the category the classifier returned,
\* phishing scoring from that category and the burnout result just
\* computed, the narrative from the cases just searched, and a request that
\* failed at a stage has no result of any later stage.
C21_StagesInOrder ==
    /\ stress_result # None => metrics # None
    /\ burnout_result # None =>
          /\ stress_result # None
          /\ burnout_result =
                calculate_burnout_score(BurnoutWeights,
                    BurnoutData(metrics, stress_result.stress_level))
    /\ phishing_result # None =>
          /\ burnout_result # None
          /\ phishing_result =
                calculate_vulnerability_index(RiskFactors, metrics,
                                              stress_result, burnout_result)
    /\ similar # None =>
          /\ phishing_result # None
          /\ similar =
                find_similar_cases(dataset, InputsAsQuery(metrics), top_n)
    /\ explanation # None =>
          /\ phishing_result # None
          /\ dataset # None => similar # None
          /\ ("similar_cases" \in DOMAIN explanation /\ dataset # None) =>
                explanation.similar_cases = SimilarCasesText(similar.cases)
    /\ (RequestFailed /\ metrics = None) => stress_result = None
    /\ (RequestFailed /\ stress_result = None) =>
          /\ burnout_result = None
          /\ phishing_result = None
          /\ similar = None
          /\ explanation = None
    /\ (response # None /\ response.success) =>
          /\ response.stress = stress_result
          /\ response.burnout = burnout_result
          /\ response.phishing = phishing_result
          /\ response.explanation = explanation

C21_Witness ==
    /\ pc = "done"
    /\ response.success
    /\ stress_result.stress_level = "Critical"
    /\ similar # None
    /\ "similar_cases" \in DOMAIN explanation
    /\ explanation.similar_cases # <<>>

C21_FailedStageReached ==
    /\ pc = "done"
    /\ RequestFailed
    /\ metrics # None
    /\ stress_result = None

StartedUp == pc # "startup"

\* C25: start-up leaves the predictor with a model in every case (the
\* stored artifact loaded, or a new model trained and stored): after
\* start-up health reports model_loaded true and no analyze request fails
\* for lack of a model.
C25_StartupLeavesModel ==
    StartedUp =>
        /\ model # None
        /\ health.model_loaded
        /\ RequestFailed => response.error # ModelUnavailable.raised

\* what start-up does leave: a model when a file exists at model_path,
\* loaded from it or trained because it could not be read
C25_ModelIffFileExisted ==
    StartedUp => (model # None <=> artifact # None)

C25_UnreadableRetrained ==
    [][(pc = "startup" /\ artifact = Unreadable) =>
          (model' = Dumped(1).model /\ artifact' = Dumped(1))]_vars

C25_NoModelReached ==
    /\ pc = "done"
    /\ model = None
    /\ ~health.model_loaded
    /\ RequestFailed
    /\ response.error = ModelUnavailable.raised

(***************************************************************************)
(* Concurrent predict calls                                                *)
(***************************************************************************)
\* what a call returns or raises when it runs alone on this file
AloneOutcome(call) ==
    IF artifact = None THEN call.result = ModelUnavailable
    ELSE IF artifact = Unreadable THEN call.result = LoadError
    ELSE call.pc = "returned" /\ call.result.stress_level \in StressLevels

\* C22: concurrent predict calls on one shared predictor are safe under
\* every interleaving, lazy loading included: a call that has seen a loaded
\* model decodes with the label encoder of the same artifact, no call
\* fails on an unfitted encoder, and each call ends as it would alone.
C22_ConcurrentPredictSafe ==
    \A i \in 1..Len(calls) :
        /\ calls[i].pc = "infer" => label_encoder.fitted = model.trained
        /\ calls[i].result # NotFitted
        /\ Finished(calls[i]) => AloneOutcome(calls[i])

\* the failure needs a lazy load in progress in another call, or one that
\* took place; calls on a predictor loaded beforehand end as they do alone
C22_UnsafeOnlyDuringLazyLoad ==
    \A i \in 1..Len(calls) :
        /\ (calls[i].pc = "infer" /\ label_encoder.fitted # model.trained) =>
              \E j \in 1..Len(calls) : j # i /\ calls[j].pc = "load_encoder"
        /\ calls[i].result = NotFitted =>
              \E j \in 1..Len(calls) : j # i /\ calls[j].loaded
        /\ (Finished(calls[i]) /\ calls[i].result # NotFitted) =>
              AloneOutcome(calls[i])

C22_NotFittedReached ==
    \E i \in 1..Len(calls) :
        /\ calls[i].result = NotFitted
        /\ model # None
        /\ \E j \in 1..Len(calls) : calls[j].pc = "load_encoder"

C22_LoadedBeforehandReached ==
    /\ Len(calls) = 2
    /\ ~calls[1].loaded /\ calls[1].pc = "returned"
    /\ ~calls[2].loaded /\ calls[2].pc = "returned"

(***************************************************************************)
(* Frame conditions                                                        *)
(***************************************************************************)
CorpusRowsUnscored ==
    dataset # None =>
        \A r \in 1..Len(dataset.rows) :
            "similarity_score" \notin DOMAIN dataset.rows[r]

ResultsScored ==
    (similar # None /\ similar # IndexError) =>
        \A j \in 1..Len(similar.cases) :
            "similarity_score" \in DOMAIN similar.cases[j]

\* C23: find_similar_cases leaves the corpus as it was (same rows, same
\* order, same fields: the similarity_score of a returned result is not
\* added to a corpus row) and leaves the metrics it is given as they were;
\* no stage of the pipeline changes the metrics record built for the
\* request, which is the record the response returns.
C23_CorpusAndMetricsUnchanged ==
    /\ [](CorpusRowsUnscored /\ ResultsScored)
    /\ []((response # None /\ response.success) =>
             response.inputs = metrics)
    /\ [][/\ dataset' = dataset
          /\ metrics # None => metrics' = metrics
          /\ query # None => query' = query]_vars

C23_Witness ==
    /\ pc = "done"
    /\ response.success
    /\ similar # None
    /\ similar # IndexError
    /\ similar.cases # <<>>
    /\ CorpusRowsUnscored

ScoringCalls ==
    {i \in 1..Len(call_log) :
        call_log[i].call.op \in {"calculate_burnout_score",
                                 "calculate_vulnerability_index"}}

\* C24: a returned assessment shares no mutable state with the engine:
\* whatever a caller writes into a result it holds (its weights or
\* factor_weights map), every later scoring call uses the weights
\* 35/25/20/20 and 25/30/25/20 hundredths and returns for the same input
\* what it returned before.
C24_ResultsShareNothing ==
    /\ weights = BurnoutWeights
    /\ risk_factors = RiskFactors
    /\ \A i \in ScoringCalls :
          /\ "weights" \in DOMAIN call_log[i].result =>
                call_log[i].result.weights = BurnoutWeights
          /\ "factor_weights" \in DOMAIN call_log[i].result =>
                call_log[i].result.factor_weights = RiskFactors
    /\ \A i, j \in ScoringCalls :
          call_log[i].call.op = call_log[j].call.op
          /\ call_log[i].call.employee_data = call_log[j].call.employee_data
          /\ call_log[i].call.op = "calculate_burnout_score"
          => call_log[i].result = call_log[j].result

\* the same burnout call before and after the write, with two totals
C24_DifferentTotalReached ==
    \E i, j \in ScoringCalls :
        /\ i < j
        /\ call_log[i].call = call_log[j].call
        /\ call_log[i].call.op = "calculate_burnout_score"
        /\ call_log[i].result.total_score # call_log[j].result.total_score

\* without writes through results the engines keep their weights
C24_OnlyCallerWritesChangeWeights ==
    [][(weights' # weights \/ risk_factors' # risk_factors) =>
          (burnout_result' # burnout_result
           \/ phishing_result' # phishing_result)
          /\ call_log' = call_log]_vars

====
